---- MODULE Spec2Model ----
(***************************************************************************)
(* A model of rhubarb: the WebSocket opening handshake (server.rs,         *)
(* client.rs), the frame codec (frame.rs) and the connection sessions      *)
(* (server.rs, main.rs).  Text is modelled as Rust holds it: a sequence of *)
(* bytes (0..255); every literal is written as its ASCII codes with the    *)
(* text in a comment.                                                      *)
(***************************************************************************)
EXTENDS Integers, Sequences, FiniteSets, TLC

(***************************************************************************)
(* Byte-string primitives of the Rust standard library that the handshake  *)
(* code calls (str::trim, split, split_whitespace, split_once,             *)
(* to_lowercase, chars().count()).                                         *)
(***************************************************************************)

\* char::is_whitespace on the one-byte code points: TAB, LF, VT, FF, CR, SP.
IsWhitespace(b) == b \in {9, 10, 11, 12, 13, 32}

\* the first index >= i of s holding a byte that satisfies "is whitespace"
\* = ws, or Len(s) + 1
FirstAt(s, i, ws) ==
    IF \E j \in i..Len(s) : IsWhitespace(s[j]) = ws
    THEN CHOOSE j \in i..Len(s) :
             /\ IsWhitespace(s[j]) = ws
             /\ \A k \in i..(j - 1) : IsWhitespace(s[k]) # ws
    ELSE Len(s) + 1

FirstNonWs(s, i) == FirstAt(s, i, FALSE)

\* the last index <= i of s holding a non-whitespace byte, or 0
LastNonWs(s, i) ==
    IF \E j \in 1..i : ~IsWhitespace(s[j])
    THEN CHOOSE j \in 1..i :
             /\ ~IsWhitespace(s[j])
             /\ \A k \in (j + 1)..i : IsWhitespace(s[k])
    ELSE 0

\* str::trim: leading and trailing whitespace removed.
Trim(s) == SubSeq(s, FirstNonWs(s, 1), LastNonWs(s, Len(s)))

\* the first index >= i of s holding sep, or 0
IndexOf(s, sep, i) ==
    IF \E j \in i..Len(s) : s[j] = sep
    THEN CHOOSE j \in i..Len(s) :
             s[j] = sep /\ \A k \in i..(j - 1) : s[k] # sep
    ELSE 0

\* the k-th smallest member of a set of indices
Kth(P, k) == CHOOSE p \in P : Cardinality({q \in P : q < p}) = k - 1

\* a split that gives no piece at all for the empty string
SplitNoEmpty(s, sep) ==
    LET P == {j \in 1..Len(s) : s[j] = sep}
        n == Cardinality(P)
    IN IF Len(s) = 0 THEN << >>
       ELSE [k \in 1..(n + 1) |->
               SubSeq(s, IF k = 1 THEN 1 ELSE Kth(P, k - 1) + 1,
                         IF k = n + 1 THEN Len(s) ELSE Kth(P, k) - 1)]

\* str::split(sep): the pieces between separators; never empty (the empty
\* string splits into one empty piece).
Split(s, sep) ==
    LET P == {j \in 1..Len(s) : s[j] = sep}
        n == Cardinality(P)
    IN [k \in 1..(n + 1) |->
           SubSeq(s, IF k = 1 THEN 1 ELSE Kth(P, k - 1) + 1,
                     IF k = n + 1 THEN Len(s) ELSE Kth(P, k) - 1)]

\* the first index >= i of s holding whitespace, or Len(s) + 1
FirstWs(s, i) == FirstAt(s, i, TRUE)

\* str::split_whitespace: the maximal runs of non-whitespace bytes.
SplitWhitespace(s) ==
    LET B == {j \in 1..Len(s) :
                 ~IsWhitespace(s[j]) /\ (j = 1 \/ IsWhitespace(s[j - 1]))}
    IN [k \in 1..Cardinality(B) |->
           SubSeq(s, Kth(B, k), FirstWs(s, Kth(B, k)) - 1)]

\* str::split_once(sep): None, or the text before and after the first sep.
SplitOnce(s, sep) ==
    LET i == IndexOf(s, sep, 1) IN
    IF i = 0 THEN [some |-> FALSE, left |-> << >>, right |-> << >>]
    ELSE [some |-> TRUE, left |-> SubSeq(s, 1, i - 1),
          right |-> SubSeq(s, i + 1, Len(s))]

\* str::to_lowercase on the one-byte code points: 'A'..'Z' -> 'a'..'z'.
ToLowercase(s) ==
    [i \in 1..Len(s) |-> IF s[i] >= 65 /\ s[i] <= 90 THEN s[i] + 32 ELSE s[i]]

\* str::chars().count(): the bytes that are not UTF-8 continuation bytes.
CharsCount(s) == Cardinality({i \in 1..Len(s) : s[i] < 128 \/ s[i] > 191})

\* Iterator::next on a split: Some(first piece) or None.
Next1(seq, n) ==
    IF Len(seq) >= n THEN [some |-> TRUE, val |-> seq[n]]
    ELSE [some |-> FALSE, val |-> << >>]

(***************************************************************************)
(* Sha1::digest (crate sha1) and Base64::encode_string (crate base64ct),   *)
(* computed as FIPS 180-4 and RFC 4648 define them.  A 32-bit word is a    *)
(* pair <<high 16 bits, low 16 bits>>.                                     *)
(***************************************************************************)
RECURSIVE BitAnd(_, _, _)
BitAnd(a, b, n) ==
    IF n = 0 THEN 0
    ELSE 2 * BitAnd(a \div 2, b \div 2, n - 1) + (a % 2) * (b % 2)

\* a & b for 4-bit values, as a table
And4 == [a \in 0..15 |-> [b \in 0..15 |-> BitAnd(a, b, 4)]]

\* a & b and a ^ b for 16-bit values, four bits at a time
And16(a, b) ==
    And4[a \div 4096][b \div 4096] * 4096
      + And4[(a \div 256) % 16][(b \div 256) % 16] * 256
      + And4[(a \div 16) % 16][(b \div 16) % 16] * 16
      + And4[a % 16][b % 16]

BitXor(a, b, n) == a + b - 2 * And16(a, b)

And32(x, y) == << And16(x[1], y[1]), And16(x[2], y[2]) >>
Xor32(x, y) == << BitXor(x[1], y[1], 16), BitXor(x[2], y[2], 16) >>
Not32(x) == << 65535 - x[1], 65535 - x[2] >>
\* x | y for words with no common bit is x + y, half by half.
Join32(x, y) == << x[1] + y[1], x[2] + y[2] >>

Add32(x, y) ==
    LET lo == x[2] + y[2]
        hi == x[1] + y[1] + (lo \div 65536)
    IN << hi % 65536, lo % 65536 >>

Pow2(n) == CASE n = 0 -> 1 [] n = 1 -> 2 [] n = 2 -> 4 [] n = 5 -> 32
             [] n = 11 -> 2048 [] n = 14 -> 16384 [] n = 15 -> 32768
             [] n = 16 -> 65536

\* rotate left by n, 0 < n < 16
RotlSmall(x, n) ==
    << ((x[1] * Pow2(n)) % 65536) + (x[2] \div Pow2(16 - n)),
       ((x[2] * Pow2(n)) % 65536) + (x[1] \div Pow2(16 - n)) >>

Rotl32(x, n) == IF n < 16 THEN RotlSmall(x, n)
                ELSE RotlSmall(<< x[2], x[1] >>, n - 16)

Sha1Pad(msg) ==
    LET n == Len(msg)
        zeros == (119 - (n % 64)) % 64
        bits == 8 * n
    IN msg \o << 128 >> \o [i \in 1..zeros |-> 0]
           \o << 0, 0, 0, 0, 0, (bits \div 65536) % 256,
                 (bits \div 256) % 256, bits % 256 >>

WordAt(m, off) == << m[off + 1] * 256 + m[off + 2], m[off + 3] * 256 + m[off + 4] >>

\* W[t] for the next n words, w holding the words so far.  Each half is
\* computed to a value before the next is started.
RECURSIVE Sha1Schedule(_, _)
Sha1Schedule(w, n) ==
    IF n = 0 THEN w
    ELSE IF n = 1
    THEN LET t == Len(w) + 1
         IN Append(w, Rotl32(Xor32(Xor32(w[t - 3], w[t - 8]),
                                   Xor32(w[t - 14], w[t - 16])), 1))
    ELSE CHOOSE r \in { Sha1Schedule(half, n - (n \div 2)) :
                           half \in { Sha1Schedule(w, n \div 2) } } : TRUE

Sha1F(t, b, c, d) ==
    IF t < 20 THEN Join32(And32(b, c), And32(Not32(b), d))
    ELSE IF t < 40 THEN Xor32(Xor32(b, c), d)
    ELSE IF t < 60 THEN Join32(And32(b, c), And32(Xor32(b, c), d))
    ELSE Xor32(Xor32(b, c), d)

Sha1K(t) ==
    IF t < 20 THEN << 23170, 31129 >>        \* 0x5A827999
    ELSE IF t < 40 THEN << 28377, 60321 >>   \* 0x6ED9EBA1
    ELSE IF t < 60 THEN << 36635, 48348 >>   \* 0x8F1BBCDC
    ELSE << 51810, 49622 >>                  \* 0xCA62C1D6

Sha1Round(w, t, s) ==
    LET tmp == Add32(Add32(Add32(Add32(Rotl32(s[1], 5),
                   Sha1F(t, s[2], s[3], s[4])), s[5]), Sha1K(t)), w[t + 1])
    IN << tmp, s[1], Rotl32(s[2], 30), s[3], s[4] >>

\* rounds t .. t + n - 1 applied to the working state s = <<a, b, c, d, e>>
RECURSIVE Sha1Rounds(_, _, _, _)
Sha1Rounds(w, t, n, s) ==
    IF n = 0 THEN s
    ELSE IF n = 1 THEN Sha1Round(w, t, s)
    ELSE CHOOSE r \in { Sha1Rounds(w, t + (n \div 2), n - (n \div 2), half) :
                           half \in { Sha1Rounds(w, t, n \div 2, s) } } : TRUE

\* one block: the 80 rounds on the schedule w, added to the hash value h
Sha1Compress(h, w) ==
    CHOOSE r \in { << Add32(h[1], s[1]), Add32(h[2], s[2]), Add32(h[3], s[3]),
                       Add32(h[4], s[4]), Add32(h[5], s[5]) >> :
                    s \in { Sha1Rounds(w, 0, 80, h) } } : TRUE

RECURSIVE Sha1Blocks(_, _, _)
Sha1Blocks(m, off, h) ==
    IF off >= Len(m) THEN h
    ELSE CHOOSE r \in
           { Sha1Blocks(m, off + 64, h2) :
               h2 \in { Sha1Compress(h, w) :
                          w \in { Sha1Schedule(w0, 64) :
                                    w0 \in { [i \in 1..16 |-> WordAt(m, off + 4 * (i - 1))] } } } } : TRUE

Sha1Init ==
    << << 26437, 8961 >>,     \* 0x67452301
       << 61389, 43913 >>,    \* 0xEFCDAB89
       << 39098, 56574 >>,    \* 0x98BADCFE
       << 4146, 21622 >>,     \* 0x10325476
       << 50130, 57840 >> >>  \* 0xC3D2E1F0

\* The 20 digest bytes of msg.
Sha1Digest(msg) ==
    CHOOSE r \in
      { [i \in 1..20 |->
            LET w == h[(i + 3) \div 4]
                k == (i - 1) % 4
            IN IF k = 0 THEN w[1] \div 256 ELSE IF k = 1 THEN w[1] % 256
               ELSE IF k = 2 THEN w[2] \div 256 ELSE w[2] % 256] :
        h \in { Sha1Blocks(m, 0, Sha1Init) : m \in { Sha1Pad(msg) } } } : TRUE

B64Char(i) ==
    IF i < 26 THEN 65 + i
    ELSE IF i < 52 THEN 97 + (i - 26)
    ELSE IF i < 62 THEN 48 + (i - 52)
    ELSE IF i = 62 THEN 43 ELSE 47

RECURSIVE B64From(_, _)
B64From(b, i) ==
    LET n == Len(b) - i + 1 IN
    IF n <= 0 THEN << >>
    ELSE IF n = 1
    THEN << B64Char(b[i] \div 4), B64Char((b[i] % 4) * 16), 61, 61 >>
    ELSE IF n = 2
    THEN << B64Char(b[i] \div 4),
            B64Char((b[i] % 4) * 16 + (b[i + 1] \div 16)),
            B64Char((b[i + 1] % 16) * 4), 61 >>
    ELSE << B64Char(b[i] \div 4),
            B64Char((b[i] % 4) * 16 + (b[i + 1] \div 16)),
            B64Char((b[i + 1] % 16) * 4 + (b[i + 2] \div 64)),
            B64Char(b[i + 2] % 64) >> \o B64From(b, i + 3)

\* Base64::encode_string: standard alphabet, '=' padding.
Base64Encode(b) == B64From(b, 1)


(***************************************************************************)
(* Result<T, String> of the validators: Ok(val) or Err(val).               *)
(***************************************************************************)
Ok(v) == [ok |-> TRUE, val |-> v]
Err(m) == [ok |-> FALSE, val |-> m]

\* Option<T> of HashMap::get
Some(v) == [some |-> TRUE, val |-> v]
None == [some |-> FALSE, val |-> << >>]

(***************************************************************************)
(* The string literals of server.rs and client.rs.                         *)
(***************************************************************************)
\* "GET"
GET ==
    <<71, 69, 84>>
\* "HTTP"
HTTP ==
    <<72, 84, 84, 80>>
\* "1.1"
Ver11 ==
    <<49, 46, 49>>
\* "2"
Ver2 ==
    <<50>>
\* "3"
Ver3 ==
    <<51>>
\* "host"
HdrHost ==
    <<104, 111, 115, 116>>
\* "upgrade"
HdrUpgrade ==
    <<117, 112, 103, 114, 97, 100, 101>>
\* "connection"
HdrConnection ==
    <<99, 111, 110, 110, 101, 99, 116, 105, 111, 110>>
\* "sec-websocket-version"
HdrSecVersion ==
    <<115, 101, 99, 45, 119, 101, 98, 115, 111, 99, 107, 101, 116, 45, 118, 101, 114, 115, 105, 111, 110>>
\* "sec-websocket-key"
HdrSecKey ==
    <<115, 101, 99, 45, 119, 101, 98, 115, 111, 99, 107, 101, 116, 45, 107, 101, 121>>
\* "sec-websocket-accept"
HdrSecAccept ==
    <<115, 101, 99, 45, 119, 101, 98, 115, 111, 99, 107, 101, 116, 45, 97, 99, 99, 101, 112, 116>>
\* "upgrade" (the Connection value)
UpgradeValue ==
    <<117, 112, 103, 114, 97, 100, 101>>
\* "websocket"
Websocket ==
    <<119, 101, 98, 115, 111, 99, 107, 101, 116>>
\* "13"
Thirteen ==
    <<49, 51>>
\* "101"
Code101 ==
    <<49, 48, 49>>
\* "258EAFA5-E914-47DA-95CA-C5AB0DC85B11"
MagicGUID ==
    <<50, 53, 56, 69, 65, 70, 65, 53, 45, 69, 57, 49, 52, 45, 52, 55, 68, 65, 45, 57, 53, 67, 65, 45, 67, 53, 65, 66, 48, 68, 67, 56, 53, 66, 49, 49>>
\* "Handshake is not a valid HTTP request"
ErrNotHttpRequest ==
    <<72, 97, 110, 100, 115, 104, 97, 107, 101, 32, 105, 115, 32, 110, 111, 116, 32, 97, 32, 118, 97, 108, 105, 100, 32, 72, 84, 84, 80, 32, 114, 101, 113, 117, 101, 115, 116>>
\* "Handshake is not a GET Request"
ErrNotGet ==
    <<72, 97, 110, 100, 115, 104, 97, 107, 101, 32, 105, 115, 32, 110, 111, 116, 32, 97, 32, 71, 69, 84, 32, 82, 101, 113, 117, 101, 115, 116>>
\* "Handshake contains invalid URI resource"
ErrInvalidUri ==
    <<72, 97, 110, 100, 115, 104, 97, 107, 101, 32, 99, 111, 110, 116, 97, 105, 110, 115, 32, 105, 110, 118, 97, 108, 105, 100, 32, 85, 82, 73, 32, 114, 101, 115, 111, 117, 114, 99, 101>>
\* "Handshake is using an invalid HTTP version, must be HTTP/1.1 or higher"
ErrHttpVersion ==
    <<72, 97, 110, 100, 115, 104, 97, 107, 101, 32, 105, 115, 32, 117, 115, 105, 110, 103, 32, 97, 110, 32, 105, 110, 118, 97, 108, 105, 100, 32, 72, 84, 84, 80, 32, 118, 101, 114, 115, 105, 111, 110, 44, 32, 109, 117, 115, 116, 32, 98, 101, 32, 72, 84, 84, 80, 47, 49, 46, 49, 32, 111, 114, 32, 104, 105, 103, 104, 101, 114>>
\* "Invalid hostname"
ErrInvalidHostname ==
    <<73, 110, 118, 97, 108, 105, 100, 32, 104, 111, 115, 116, 110, 97, 109, 101>>
\* "Handshake missing Host header"
ErrMissingHost ==
    <<72, 97, 110, 100, 115, 104, 97, 107, 101, 32, 109, 105, 115, 115, 105, 110, 103, 32, 72, 111, 115, 116, 32, 104, 101, 97, 100, 101, 114>>
\* "Requested Upgrade was not 'websocket'"
ErrBadUpgrade ==
    <<82, 101, 113, 117, 101, 115, 116, 101, 100, 32, 85, 112, 103, 114, 97, 100, 101, 32, 119, 97, 115, 32, 110, 111, 116, 32, 39, 119, 101, 98, 115, 111, 99, 107, 101, 116, 39>>
\* "Handshake missing Upgrade header"
ErrMissingUpgrade ==
    <<72, 97, 110, 100, 115, 104, 97, 107, 101, 32, 109, 105, 115, 115, 105, 110, 103, 32, 85, 112, 103, 114, 97, 100, 101, 32, 104, 101, 97, 100, 101, 114>>
\* "Requested Connection was not 'upgrade'"
ErrBadConnection ==
    <<82, 101, 113, 117, 101, 115, 116, 101, 100, 32, 67, 111, 110, 110, 101, 99, 116, 105, 111, 110, 32, 119, 97, 115, 32, 110, 111, 116, 32, 39, 117, 112, 103, 114, 97, 100, 101, 39>>
\* "Handshake missing Connection header"
ErrMissingConnection ==
    <<72, 97, 110, 100, 115, 104, 97, 107, 101, 32, 109, 105, 115, 115, 105, 110, 103, 32, 67, 111, 110, 110, 101, 99, 116, 105, 111, 110, 32, 104, 101, 97, 100, 101, 114>>
\* "Requested Sec-WebSocket-Version was not '13'"
ErrBadVersion ==
    <<82, 101, 113, 117, 101, 115, 116, 101, 100, 32, 83, 101, 99, 45, 87, 101, 98, 83, 111, 99, 107, 101, 116, 45, 86, 101, 114, 115, 105, 111, 110, 32, 119, 97, 115, 32, 110, 111, 116, 32, 39, 49, 51, 39>>
\* "Handshake missing Sec-WebSocket-Version header"
ErrMissingVersion ==
    <<72, 97, 110, 100, 115, 104, 97, 107, 101, 32, 109, 105, 115, 115, 105, 110, 103, 32, 83, 101, 99, 45, 87, 101, 98, 83, 111, 99, 107, 101, 116, 45, 86, 101, 114, 115, 105, 111, 110, 32, 104, 101, 97, 100, 101, 114>>
\* "Handshake missing Sec-WebSocket-Key header"
ErrMissingKey ==
    <<72, 97, 110, 100, 115, 104, 97, 107, 101, 32, 109, 105, 115, 115, 105, 110, 103, 32, 83, 101, 99, 45, 87, 101, 98, 83, 111, 99, 107, 101, 116, 45, 75, 101, 121, 32, 104, 101, 97, 100, 101, 114>>
\* "Invalid Sec-WebSocket-Key"
ErrInvalidKey ==
    <<73, 110, 118, 97, 108, 105, 100, 32, 83, 101, 99, 45, 87, 101, 98, 83, 111, 99, 107, 101, 116, 45, 75, 101, 121>>
\* "Handshake is not a valid HTTP response"
ErrNotHttpResponse ==
    <<72, 97, 110, 100, 115, 104, 97, 107, 101, 32, 105, 115, 32, 110, 111, 116, 32, 97, 32, 118, 97, 108, 105, 100, 32, 72, 84, 84, 80, 32, 114, 101, 115, 112, 111, 110, 115, 101>>
\* "Invalid response code "
ErrInvalidCodePrefix ==
    <<73, 110, 118, 97, 108, 105, 100, 32, 114, 101, 115, 112, 111, 110, 115, 101, 32, 99, 111, 100, 101, 32>>
\* "Missing response code"
ErrMissingCode ==
    <<77, 105, 115, 115, 105, 110, 103, 32, 114, 101, 115, 112, 111, 110, 115, 101, 32, 99, 111, 100, 101>>
\* "Handshake missing Sec-WebSocket-Accept header"
ErrMissingAccept ==
    <<72, 97, 110, 100, 115, 104, 97, 107, 101, 32, 109, 105, 115, 115, 105, 110, 103, 32, 83, 101, 99, 45, 87, 101, 98, 83, 111, 99, 107, 101, 116, 45, 65, 99, 99, 101, 112, 116, 32, 104, 101, 97, 100, 101, 114>>
\* "Server key invalid"
ErrServerKey ==
    <<83, 101, 114, 118, 101, 114, 32, 107, 101, 121, 32, 105, 110, 118, 97, 108, 105, 100>>

(***************************************************************************)
(* The header map: components.filter_map(split_once(':')).map(..)          *)
(* .collect::<HashMap<_, _>>().  A map is a function from the names        *)
(* inserted so far to their values; inserting a name again replaces its    *)
(* value.                                                                  *)
(***************************************************************************)
MapGet(m, k) == IF k \in DOMAIN m THEN Some(m[k]) ELSE None

\* the header name of a line: the text before its first ':', trimmed and
\* lower-cased
HeaderName(line) == ToLowercase(Trim(SplitOnce(line, 58).left))

\* a map in which the first line of a name stays
CollectFromFirstWins(lines, i) ==
    LET I == {j \in i..Len(lines) : SplitOnce(lines[j], 58).some}
    IN [n \in {HeaderName(lines[j]) : j \in I} |->
           LET first == CHOOSE j \in I :
                            /\ HeaderName(lines[j]) = n
                            /\ \A k \in I : k < j => HeaderName(lines[k]) # n
           IN Trim(SplitOnce(lines[first], 58).right)]

\* filter_map + collect into a HashMap over the lines from i on: lines
\* without ':' are skipped, and a later line replaces an earlier one of the
\* same name
CollectFrom(lines, i) ==
    LET I == {j \in i..Len(lines) : SplitOnce(lines[j], 58).some}
    IN [n \in {HeaderName(lines[j]) : j \in I} |->
           LET last == CHOOSE j \in I :
                           /\ HeaderName(lines[j]) = n
                           /\ \A k \in I : k > j => HeaderName(lines[k]) # n
           IN Trim(SplitOnce(lines[last], 58).right)]

\* the header lines are the components after the first
CollectHeaders(components) == CollectFrom(components, 2)

(***************************************************************************)
(* ServerHandle::validate_handshake (server.rs).                           *)
(***************************************************************************)

\* validation 1: GET, a Request-URI, HTTP/1.1 or higher.  The result is
\* Ok(<<>>) or the Err to return.
ValidateRequestLine(http_request) ==
    LET request_components == SplitWhitespace(http_request)
        method == Next1(request_components, 1)
        uri == Next1(request_components, 2)
        http == Next1(request_components, 3)
        c == SplitOnce(http.val, 47)          \* '/'
    IN IF ~(method.some /\ method.val = GET) THEN Err(ErrNotGet)
       ELSE IF ~uri.some THEN Err(ErrInvalidUri)
       ELSE IF ~http.some THEN Err(ErrHttpVersion)
       ELSE IF c.some /\ c.left = HTTP /\ c.right \in {Ver11, Ver2, Ver3}
            THEN Ok(<< >>)
            ELSE Err(ErrHttpVersion)

\* validation 2: a Host header matching the server
CheckHost(headers, hostname) ==
    LET h == MapGet(headers, HdrHost)
    IN IF h.some /\ Trim(h.val) = hostname THEN Ok(<< >>)
       ELSE IF h.some THEN Err(ErrInvalidHostname)
       ELSE Err(ErrMissingHost)

\* CheckUpgrade comparing the value as it was sent, without to_lowercase
CheckUpgradeCaseSensitive(headers) ==
    LET h == MapGet(headers, HdrUpgrade)
    IN IF h.some /\ h.val = Websocket THEN Ok(<< >>)
       ELSE IF h.some THEN Err(ErrBadUpgrade)
       ELSE Err(ErrMissingUpgrade)

\* validation 3: "upgrade: websocket"
CheckUpgrade(headers) ==
    LET h == MapGet(headers, HdrUpgrade)
    IN IF h.some /\ ToLowercase(h.val) = Websocket THEN Ok(<< >>)
       ELSE IF h.some THEN Err(ErrBadUpgrade)
       ELSE Err(ErrMissingUpgrade)

\* validation 4: "connection: upgrade"
CheckConnection(headers) ==
    LET h == MapGet(headers, HdrConnection)
    IN IF h.some /\ ToLowercase(h.val) = UpgradeValue THEN Ok(<< >>)
       ELSE IF h.some THEN Err(ErrBadConnection)
       ELSE Err(ErrMissingConnection)

\* validation 6: "sec-websocket-version: 13"
CheckVersion(headers) ==
    LET h == MapGet(headers, HdrSecVersion)
    IN IF h.some /\ h.val = Thirteen THEN Ok(<< >>)
       ELSE IF h.some THEN Err(ErrBadVersion)
       ELSE Err(ErrMissingVersion)

\* AcceptKey without the magic UUID appended to the key
AcceptKeyNoGuid(key) == Base64Encode(Sha1Digest(key))

\* the accept key of a key: base64(sha1(key ++ magic UUID))
AcceptKey(key) == Base64Encode(Sha1Digest(key \o MagicGUID))

\* validation 5: the key, exactly 24 characters; Ok carries the accept key
CheckKey(headers) ==
    LET h == MapGet(headers, HdrSecKey)
        key == Trim(h.val)
    IN IF ~h.some THEN Err(ErrMissingKey)
       ELSE IF CharsCount(key) # 24 THEN Err(ErrInvalidKey)
       ELSE Ok(AcceptKey(key))

\* ValidateHeaders with the key checked before the version: 2, 3, 4, 5, 6
ValidateHeadersKeyFirst(headers, hostname) ==
    IF ~CheckHost(headers, hostname).ok THEN CheckHost(headers, hostname)
    ELSE IF ~CheckUpgrade(headers).ok THEN CheckUpgrade(headers)
    ELSE IF ~CheckConnection(headers).ok THEN CheckConnection(headers)
    ELSE IF ~CheckKey(headers).ok THEN CheckKey(headers)
    ELSE IF ~CheckVersion(headers).ok THEN CheckVersion(headers)
    ELSE CheckKey(headers)

\* "origin"
HdrOrigin ==
    <<111, 114, 105, 103, 105, 110>>

\* header validations that refuse a request with an Origin header
ValidateHeadersNoOrigin(headers, hostname) ==
    IF HdrOrigin \in DOMAIN headers THEN Err(ErrBadUpgrade)
    ELSE IF ~CheckHost(headers, hostname).ok THEN CheckHost(headers, hostname)
    ELSE IF ~CheckUpgrade(headers).ok THEN CheckUpgrade(headers)
    ELSE IF ~CheckConnection(headers).ok THEN CheckConnection(headers)
    ELSE IF ~CheckVersion(headers).ok THEN CheckVersion(headers)
    ELSE CheckKey(headers)

\* the header validations in the order of the source: 2, 3, 4, 6, 5
ValidateHeaders(headers, hostname) ==
    IF ~CheckHost(headers, hostname).ok THEN CheckHost(headers, hostname)
    ELSE IF ~CheckUpgrade(headers).ok THEN CheckUpgrade(headers)
    ELSE IF ~CheckConnection(headers).ok THEN CheckConnection(headers)
    ELSE IF ~CheckVersion(headers).ok THEN CheckVersion(headers)
    ELSE CheckKey(headers)

ValidateHandshake(client_handshake, hostname) ==
    LET components == Split(Trim(client_handshake), 10)    \* '\n'
        http_request == Next1(components, 1)
    IN IF ~http_request.some THEN Err(ErrNotHttpRequest)
       ELSE IF ~ValidateRequestLine(http_request.val).ok
            THEN ValidateRequestLine(http_request.val)
            ELSE ValidateHeaders(CollectHeaders(components), hostname)

(***************************************************************************)
(* The handshake requests a peer may send: a request line of               *)
(* whitespace-separated tokens and the five headers the server reads, each *)
(* absent or present with one of a few values, in the layout of            *)
(* create_handshake_http_request (LF) or of an HTTP client (CRLF, with     *)
(* indented lines as in the tests of server.rs).                           *)
(***************************************************************************)
\* "POST"
TokPOST ==
    <<80, 79, 83, 84>>
\* "/ws"
TokWs ==
    <<47, 119, 115>>
\* "/chat"
TokChat ==
    <<47, 99, 104, 97, 116>>
\* "HTTP/1.1"
TokHttp11 ==
    <<72, 84, 84, 80, 47, 49, 46, 49>>
\* "HTTP/2"
TokHttp2 ==
    <<72, 84, 84, 80, 47, 50>>
\* "HTTP/3"
TokHttp3 ==
    <<72, 84, 84, 80, 47, 51>>
\* "HTTP/1.0"
TokHttp10 ==
    <<72, 84, 84, 80, 47, 49, 46, 48>>
\* "PTTH/1.1"
TokPtth11 ==
    <<80, 84, 84, 72, 47, 49, 46, 49>>
\* "HTTP"
TokHttpBare ==
    <<72, 84, 84, 80>>
\* "Host"
NameHost ==
    <<72, 111, 115, 116>>
\* "Upgrade"
NameUpgrade ==
    <<85, 112, 103, 114, 97, 100, 101>>
\* "Connection"
NameConnection ==
    <<67, 111, 110, 110, 101, 99, 116, 105, 111, 110>>
\* "Sec-WebSocket-Key"
NameSecKey ==
    <<83, 101, 99, 45, 87, 101, 98, 83, 111, 99, 107, 101, 116, 45, 75, 101, 121>>
\* "Sec-WebSocket-Version"
NameSecVersion ==
    <<83, 101, 99, 45, 87, 101, 98, 83, 111, 99, 107, 101, 116, 45, 86, 101, 114, 115, 105, 111, 110>>
\* "127.0.0.1:4024"
LocalAddr ==
    <<49, 50, 55, 46, 48, 46, 48, 46, 49, 58, 52, 48, 50, 52>>
\* "localhost"
Localhost ==
    <<108, 111, 99, 97, 108, 104, 111, 115, 116>>
\* "badhost"
BadHost ==
    <<98, 97, 100, 104, 111, 115, 116>>
\* "WebSocket"
ValWebsocketMixed ==
    <<87, 101, 98, 83, 111, 99, 107, 101, 116>>
\* "Not Websocket"
ValNotWebsocket ==
    <<78, 111, 116, 32, 87, 101, 98, 115, 111, 99, 107, 101, 116>>
\* "Upgrade"
ValUpgradeCap ==
    <<85, 112, 103, 114, 97, 100, 101>>
\* "Not Upgrade"
ValNotUpgrade ==
    <<78, 111, 116, 32, 85, 112, 103, 114, 97, 100, 101>>
\* "14"
ValFourteen ==
    <<49, 52>>
\* "dGhlIHNhbXBsZSBub25jZQ=="
Key1 ==
    <<100, 71, 104, 108, 73, 72, 78, 104, 98, 88, 66, 115, 90, 83, 66, 117, 98, 50, 53, 106, 90, 81, 61, 61>>
\* "AAECAwQFBgcICQoLDA0ODw=="
Key2 ==
    <<65, 65, 69, 67, 65, 119, 81, 70, 66, 103, 99, 73, 67, 81, 111, 76, 68, 65, 48, 79, 68, 119, 61, 61>>
\* "foo"
KeyFoo ==
    <<102, 111, 111>>
\* "s3pPLMBiTxaQ9kYGzzhZRbK+xOo="
Accept1 ==
    <<115, 51, 112, 80, 76, 77, 66, 105, 84, 120, 97, 81, 57, 107, 89, 71, 122, 122, 104, 90, 82, 98, 75, 43, 120, 79, 111, 61>>
\* "Bz3qJYTGdOe8gUSpLosEdiLKDrk="
Accept2 ==
    <<66, 122, 51, 113, 74, 89, 84, 71, 100, 79, 101, 56, 103, 85, 83, 112, 76, 111, 115, 69, 100, 105, 76, 75, 68, 114, 107, 61>>

\* the request lines, as their tokens
RequestLines ==
    { << >>, << GET >>, << TokPOST >>, << GET, TokWs >>,
      << GET, TokWs, TokHttp11 >>, << GET, TokChat, TokHttp2 >>,
      << GET, TokWs, TokHttp3 >>, << GET, TokWs, TokHttp10 >>,
      << GET, TokWs, TokPtth11 >>, << GET, TokWs, TokHttpBare >>,
      << TokPOST, TokWs, TokHttp11 >>, << TokPOST, TokWs, TokHttp10 >> }

Hostnames == { LocalAddr, Localhost }
HostValues == { None, Some(LocalAddr), Some(Localhost), Some(BadHost) }
UpgradeValues ==
    { None, Some(Websocket), Some(ValWebsocketMixed), Some(ValNotWebsocket) }
ConnectionValues == { None, Some(ValUpgradeCap), Some(ValNotUpgrade) }
VersionValues == { None, Some(Thirteen), Some(ValFourteen) }
KeyValues == { None, Some(Key1), Some(Key2), Some(KeyFoo) }
Styles == { "lf", "crlf" }

RECURSIVE JoinFrom(_, _, _)
JoinFrom(parts, sep, i) ==
    IF i > Len(parts) THEN << >>
    ELSE IF i = Len(parts) THEN parts[i]
    ELSE parts[i] \o sep \o JoinFrom(parts, sep, i + 1)

Join(parts, sep) == JoinFrom(parts, sep, 1)

HeaderLine(name, v) == IF v.some THEN << name \o << 58, 32 >> \o v.val >> ELSE << >>

\* "\n", and "\r\n" followed by the indentation of the next line
LineBreak(style) == IF style = "lf" THEN << 10 >> ELSE << 13, 10, 32, 32, 32, 32 >>

BuildRequest(sh) ==
    Join(<< Join(sh.line, << 32 >>) >>
           \o HeaderLine(NameHost, sh.host)
           \o HeaderLine(NameUpgrade, sh.upgrade)
           \o HeaderLine(NameConnection, sh.connection)
           \o HeaderLine(NameSecKey, sh.key)
           \o HeaderLine(NameSecVersion, sh.version),
         LineBreak(sh.style))
    \o (IF sh.style = "lf" THEN << 10 >> ELSE << 13, 10, 13, 10 >>)

(***************************************************************************)
(* What the handshake contract says of a request, read off its shape and   *)
(* not off its text.                                                       *)
(***************************************************************************)
MethodIsGet(sh) == Len(sh.line) >= 1 /\ sh.line[1] = GET
UriPresent(sh) == Len(sh.line) >= 2
HttpVersionOk(sh) ==
    Len(sh.line) >= 3 /\ sh.line[3] \in { TokHttp11, TokHttp2, TokHttp3 }
HostOk(sh) == sh.host = Some(sh.hostname)
UpgradeOk(sh) == sh.upgrade \in { Some(Websocket), Some(ValWebsocketMixed) }
ConnectionOk(sh) == sh.connection = Some(ValUpgradeCap)
VersionOk(sh) == sh.version = Some(Thirteen)
KeyOk(sh) == sh.key \in { Some(Key1), Some(Key2) }

\* the checks, in the order the contract lists them
CheckPasses(sh) ==
    << MethodIsGet(sh), UriPresent(sh), HttpVersionOk(sh), HostOk(sh),
       UpgradeOk(sh), ConnectionOk(sh), VersionOk(sh), KeyOk(sh) >>

Faults(sh) == Cardinality({ i \in 1..8 : ~CheckPasses(sh)[i] })

\* the requests of the model fail at most this many checks
MaxFaults == 2

Shapes ==
    { sh \in [ line : RequestLines, hostname : Hostnames, host : HostValues,
               upgrade : UpgradeValues, connection : ConnectionValues,
               version : VersionValues, key : KeyValues, style : Styles ] :
        Faults(sh) <= MaxFaults }

(***************************************************************************)
(* String::from_utf8: Ok exactly for well-formed UTF-8.                    *)
(***************************************************************************)
IsCont(b) == b >= 128 /\ b <= 191

\* the length of the sequence a lead byte starts, 0 for a byte that starts none
LeadLen(b) ==
    IF b < 128 THEN 1
    ELSE IF b >= 194 /\ b <= 223 THEN 2
    ELSE IF b >= 224 /\ b <= 239 THEN 3
    ELSE IF b >= 240 /\ b <= 244 THEN 4
    ELSE 0

\* the second byte of a sequence is further restricted after E0, ED, F0, F4
SecondOk(lead, b) ==
    /\ lead = 224 => b >= 160
    /\ lead = 237 => b <= 159
    /\ lead = 240 => b >= 144
    /\ lead = 244 => b <= 143

IsUtf8(s) ==
    \A i \in 1..Len(s) :
        IF IsCont(s[i])
        THEN \E k \in 1..3 :
                /\ i - k >= 1
                /\ LeadLen(s[i - k]) > k
                /\ \A j \in (i - k + 1)..(i - 1) : IsCont(s[j])
        ELSE /\ LeadLen(s[i]) > 0
             /\ i + LeadLen(s[i]) - 1 <= Len(s)
             /\ \A j \in (i + 1)..(i + LeadLen(s[i]) - 1) : IsCont(s[j])
             /\ LeadLen(s[i]) > 1 => SecondOk(s[i], s[i + 1])

(***************************************************************************)
(* WebSocketClient::validate_server_handshake (client.rs).                 *)
(***************************************************************************)

\* a validation 1 that also wants the first token to start with "HTTP"
CheckResponseCodeHttpOnly(http_response) ==
    LET response_components == SplitWhitespace(http_response)
        version == Next1(response_components, 1)
        code == Next1(response_components, 2)
    IN IF version.some /\ (Len(version.val) < 4 \/ SubSeq(version.val, 1, 4) # HTTP)
       THEN Err(ErrNotHttpResponse)
       ELSE IF code.some /\ code.val = Code101 THEN Ok(<< >>)
       ELSE IF code.some THEN Err(ErrInvalidCodePrefix \o code.val)
       ELSE Err(ErrMissingCode)

\* validation 1: the second token of the status line must be 101
CheckResponseCode(http_response) ==
    LET response_components == SplitWhitespace(http_response)
        code == Next1(response_components, 2)
    IN IF code.some /\ code.val = Code101 THEN Ok(<< >>)
       ELSE IF code.some THEN Err(ErrInvalidCodePrefix \o code.val)
       ELSE Err(ErrMissingCode)

\* the value the client expects in Sec-WebSocket-Accept for the key it sent
ExpectedKey(key) == Base64Encode(Sha1Digest(key \o MagicGUID))

\* CheckAccept satisfied by any Sec-WebSocket-Accept header that is present
CheckAcceptAnyValue(headers, key) ==
    LET h == MapGet(headers, HdrSecAccept)
    IN IF ~h.some THEN Err(ErrMissingAccept) ELSE Ok(<< >>)

\* validation 4: the accept key
CheckAccept(headers, key) ==
    LET h == MapGet(headers, HdrSecAccept)
        accept_key == Trim(h.val)
    IN IF ~h.some THEN Err(ErrMissingAccept)
       ELSE IF accept_key # ExpectedKey(key) THEN Err(ErrServerKey)
       ELSE Ok(<< >>)

\* ValidateResponseHeaders with the Connection header checked before Upgrade
ValidateResponseHeadersConnectionFirst(headers, key) ==
    IF ~CheckConnection(headers).ok THEN CheckConnection(headers)
    ELSE IF ~CheckUpgrade(headers).ok THEN CheckUpgrade(headers)
    ELSE CheckAccept(headers, key)

\* validations 2, 3, 4 in the order of the source
ValidateResponseHeaders(headers, key) ==
    IF ~CheckUpgrade(headers).ok THEN CheckUpgrade(headers)
    ELSE IF ~CheckConnection(headers).ok THEN CheckConnection(headers)
    ELSE CheckAccept(headers, key)

ValidateServerHandshake(server_response, key) ==
    LET components == Split(Trim(server_response), 10)    \* '\n'
        http_response == Next1(components, 1)
    IN IF ~http_response.some THEN Err(ErrNotHttpResponse)
       ELSE IF ~CheckResponseCode(http_response.val).ok
            THEN CheckResponseCode(http_response.val)
            ELSE ValidateResponseHeaders(CollectHeaders(components), key)

\* create_handshake_http_request: the GET request for path with the key
\* " HTTP/1.1\nHost: "
ReqAfterPath ==
    <<32, 72, 84, 84, 80, 47, 49, 46, 49, 10, 72, 111, 115, 116, 58, 32>>
\* "\nUpgrade: websocket\nConnection: Upgrade\nSec-WebSocket-Key: "
ReqAfterHost ==
    <<10, 85, 112, 103, 114, 97, 100, 101, 58, 32, 119, 101, 98, 115, 111, 99, 107, 101, 116, 10, 67, 111, 110, 110, 101, 99, 116, 105, 111, 110, 58, 32, 85, 112, 103, 114, 97, 100, 101, 10, 83, 101, 99, 45, 87, 101, 98, 83, 111, 99, 107, 101, 116, 45, 75, 101, 121, 58, 32>>
\* "\nSec-WebSocket-Protocol: rhubarb\nSec-WebSocket-Version: 13\n\n            "
ReqAfterKey ==
    <<10, 83, 101, 99, 45, 87, 101, 98, 83, 111, 99, 107, 101, 116, 45, 80, 114, 111, 116, 111, 99, 111, 108, 58, 32, 114, 104, 117, 98, 97, 114, 98, 10, 83, 101, 99, 45, 87, 101, 98, 83, 111, 99, 107, 101, 116, 45, 86, 101, 114, 115, 105, 111, 110, 58, 32, 49, 51, 10, 10, 32, 32, 32, 32, 32, 32, 32, 32, 32, 32, 32, 32>>

CreateHandshakeHttpRequest(path, peer_addr, key) ==
    GET \o << 32 >> \o path \o ReqAfterPath \o peer_addr \o ReqAfterHost
        \o key \o ReqAfterKey

(***************************************************************************)
(* The responses a server may send: a status line of tokens and the three  *)
(* headers the client reads, each absent or present with one of a few      *)
(* values.                                                                 *)
(***************************************************************************)
\* "400"
TokCode400 ==
    <<52, 48, 48>>
\* "abc"
TokCodeAbc ==
    <<97, 98, 99>>
\* "Switching"
TokSwitching ==
    <<83, 119, 105, 116, 99, 104, 105, 110, 103>>
\* "Protocols"
TokProtocols ==
    <<80, 114, 111, 116, 111, 99, 111, 108, 115>>
\* "Bad"
TokBad ==
    <<66, 97, 100>>
\* "Request"
TokRequest ==
    <<82, 101, 113, 117, 101, 115, 116>>
\* "ICY"
TokIcy ==
    <<73, 67, 89>>
\* "Sec-WebSocket-Accept"
NameSecAccept ==
    <<83, 101, 99, 45, 87, 101, 98, 83, 111, 99, 107, 101, 116, 45, 65, 99, 99, 101, 112, 116>>
\* "invalid-key"
ValInvalidKey ==
    <<105, 110, 118, 97, 108, 105, 100, 45, 107, 101, 121>>
\* "Failed to parse handshake as utf8"
ErrUtf8 ==
    <<70, 97, 105, 108, 101, 100, 32, 116, 111, 32, 112, 97, 114, 115, 101, 32, 104, 97, 110, 100, 115, 104, 97, 107, 101, 32, 97, 115, 32, 117, 116, 102, 56>>

StatusLines ==
    { << >>, << TokHttp11 >>,
      << TokHttp11, Code101, TokSwitching, TokProtocols >>,
      << TokIcy, Code101, TokSwitching, TokProtocols >>,
      << TokHttp11, Code101 >>,
      << TokHttp11, TokCode400, TokBad, TokRequest >>,
      << TokHttp11, TokCodeAbc >>,
      << Code101, TokSwitching, TokProtocols >> }

AcceptValues == { None, Some(Accept1), Some(Accept2), Some(ValInvalidKey) }
ClientKeys == { Key1, Key2 }

ResponseShapes ==
    [ line : StatusLines, upgrade : UpgradeValues,
      connection : ConnectionValues, accept : AcceptValues, style : Styles ]

BuildResponse(sh) ==
    Join(<< Join(sh.line, << 32 >>) >>
           \o HeaderLine(NameUpgrade, sh.upgrade)
           \o HeaderLine(NameConnection, sh.connection)
           \o HeaderLine(NameSecAccept, sh.accept),
         LineBreak(sh.style))

\* bytes that are not UTF-8: a lone continuation byte after "HTTP"
NonUtf8Response == HTTP \o << 47, 128, 255 >>

(***************************************************************************)
(* log::log(msg, level): one line on the logging sink.  The sink is the    *)
(* sequence of the lines printed so far, each with its level, its fixed    *)
(* text and the value formatted into it.                                   *)
(***************************************************************************)
LogLine(level, text, arg) == [level |-> level, text |-> text, arg |-> arg]

VARIABLES
    hsShape,     \* the request under validation, as the peer composed it
    hsRequest,   \* client_handshake: its text
    hsResult,    \* None, or Some(the Result validate_handshake returned)
    clPc,        \* where perform_handshake stands: start, sent, received, done
    clKey,       \* the key create_handshake_http_request generated
    clSent,      \* the bytes written to the transport
    clShape,     \* the response the server composed (None: not such a response)
    clRecv,      \* the bytes the one read returned
    clStream,    \* the client's transport: open or shutdown
    clResult,    \* the io::Result perform_handshake returned
    clLog,       \* the client's log lines
    program,     \* the server that runs: "server.rs" or "main.rs"
    listener,    \* listen(): listening, returned (with an error) or panicked
    serving,     \* main.rs: the connection listen() is inside handle_client of, or 0
    net,         \* per connection: what the peer has still to deliver, and how it ends
    sess,        \* per connection: none, Accepted, Handshaking, Established, Closed
    recv,        \* per connection: the bytes the last read returned
    out,         \* per connection: the writes that reached the peer, in order
    stream,      \* per connection: the server's transport: open, shutdown or dropped
    ret,         \* per connection: how handle_client ended
    sawEof,      \* per connection: a read of the echo loop returned end-of-stream
    werr,        \* per connection: a write of the echo loop returned an error
    slog,        \* per connection: the log lines of its session
    frame,       \* the frame built by new_bin / new_str
    wire,        \* what encode made of it
    parsed,      \* what parse made of the wire bytes
    frPc         \* the codec run: built, encoded, parsed

hsVars == << hsShape, hsRequest, hsResult >>
clVars == << clPc, clKey, clSent, clShape, clRecv, clStream, clResult, clLog >>
srvVars == << program, listener, serving, net, sess, recv, out, stream, ret,
             sawEof, werr, slog >>
frVars == << frame, wire, parsed, frPc >>
vars == << hsVars, clVars, srvVars, frVars >>

(***************************************************************************)
(* validate_handshake as a function of its input.                          *)
(***************************************************************************)
HsInputs ==
    /\ hsShape \in Shapes
    /\ hsRequest = BuildRequest(hsShape)
    /\ hsResult = None

HsIdle ==
    /\ hsShape = None
    /\ hsRequest = << >>
    /\ hsResult = None

\* the server validates the request it was sent
Validate ==
    /\ ~hsResult.some
    /\ hsResult' = Some(ValidateHandshake(hsRequest, hsShape.hostname))
    /\ UNCHANGED << hsShape, hsRequest, clVars, srvVars, frVars >>

(***************************************************************************)
(* WebSocketClient::perform_handshake (client.rs).                         *)
(***************************************************************************)
Pending == [ok |-> FALSE, kind |-> "pending", val |-> << >>]
IoOk == [ok |-> TRUE, kind |-> "none", val |-> << >>]
IoErr(kind, msg) == [ok |-> FALSE, kind |-> kind, val |-> msg]

ClInit ==
    /\ clPc = "start"
    /\ clKey = << >>
    /\ clSent = << >>
    /\ clShape = None
    /\ clRecv = << >>
    /\ clStream = "open"
    /\ clResult = Pending
    /\ clLog = << >>

ClientPaths == { TokWs }

\* log, create the request with a fresh key, send it: the write succeeds ...
ClSend ==
    /\ clPc = "start"
    /\ \E path \in ClientPaths, key \in ClientKeys :
          /\ clKey' = key
          /\ clSent' = CreateHandshakeHttpRequest(path, LocalAddr, key)
    /\ clPc' = "sent"
    /\ clLog' = Append(clLog, LogLine("Info", "Performing Handshake", << >>))
    /\ UNCHANGED << clShape, clRecv, clStream, clResult, hsVars, srvVars, frVars >>

\* ... or fails, and `?` returns the error
ClSendFails ==
    /\ clPc = "start"
    /\ \E key \in ClientKeys : clKey' = key
    /\ clPc' = "done"
    /\ clResult' = IoErr("io", << >>)
    /\ clLog' = Append(clLog, LogLine("Info", "Performing Handshake", << >>))
    /\ UNCHANGED << clSent, clShape, clRecv, clStream, hsVars, srvVars, frVars >>

\* the one blocking read returns what the server sent (nothing at all on
\* end-of-stream: the response of the empty shape) ...
ClRead ==
    /\ clPc = "sent"
    /\ \/ \E sh \in ResponseShapes :
             /\ clShape' = Some(sh)
             /\ clRecv' = BuildResponse(sh)
       \/ /\ clShape' = None
          /\ clRecv' = NonUtf8Response
    /\ clPc' = "received"
    /\ UNCHANGED << clKey, clSent, clStream, clResult, clLog, hsVars, srvVars, frVars >>

\* ... or fails, and `?` returns the error
ClReadFails ==
    /\ clPc = "sent"
    /\ clPc' = "done"
    /\ clResult' = IoErr("io", << >>)
    /\ UNCHANGED << clKey, clSent, clShape, clRecv, clStream, clLog, hsVars, srvVars, frVars >>

\* the transport left as it was whatever the validation said
AfterValidationLeftOpen(transport, v) == transport

\* the map_err closure of the validation: a failure shuts the transport down
\* in both directions
AfterValidation(transport, v) == IF v.ok THEN transport ELSE "shutdown"

\* from_utf8, validate_server_handshake and the two map_err closures
ClValidate ==
    /\ clPc = "received"
    /\ clPc' = "done"
    /\ IF ~IsUtf8(clRecv)
       THEN /\ clStream' = "shutdown"
            /\ clResult' = IoErr("InvalidData", ErrUtf8)
            /\ clLog' = clLog
       ELSE \E v \in { ValidateServerHandshake(clRecv, clKey) } :
               /\ clLog' = Append(clLog, LogLine("Debug", "Validating client handshake", clRecv))
                             \o (IF v.ok THEN << >>
                                 ELSE << LogLine("Error", "handshake failed: ", v.val) >>)
               /\ clStream' = AfterValidation(clStream, v)
               /\ clResult' = IF v.ok THEN IoOk ELSE IoErr("InvalidData", v.val)
    /\ UNCHANGED << clKey, clSent, clShape, clRecv, hsVars, srvVars, frVars >>

ClNext == ClSend \/ ClSendFails \/ ClRead \/ ClReadFails \/ ClValidate

(***************************************************************************)
(* The server: WebSocketServer::listen and handle_client, as server.rs     *)
(* has them (a thread per connection, the handshake validated and          *)
(* answered) and as main.rs has them (handle_client called in the accept   *)
(* loop, the first read printed and not answered).                         *)
(*                                                                         *)
(* The transport is the environment.  A peer connects with a script: the   *)
(* chunks its connection delivers, one per read, and how it ends once they *)
(* are read: idle (the next read blocks for ever), close (every further    *)
(* read returns end-of-stream) or reset (every further read returns an     *)
(* I/O error).  A write may fail once the peer has closed or reset.        *)
(* try_clone, peer_addr, local_addr and shutdown succeed.                  *)
(***************************************************************************)
\* "POST /ws HTTP/1.1"
PostRequest ==
    <<80, 79, 83, 84, 32, 47, 119, 115, 32, 72, 84, 84, 80, 47, 49, 46, 49>>
\* bytes that are not UTF-8
NonUtf8Bytes ==
    << 255, 254 >>
\* "hi\n"
Msg1 ==
    <<104, 105, 10>>
\* "yo\n"
Msg2 ==
    <<121, 111, 10>>
\* "HTTP/1.1 101 Switching Protocols\n                    Upgrade: websocket\n                    Connection: Upgrade\n                    Sec-WebSocket-Accept: "
Response101Prefix ==
    <<72, 84, 84, 80, 47, 49, 46, 49, 32, 49, 48, 49, 32, 83, 119, 105, 116, 99, 104, 105, 110, 103, 32, 80, 114, 111, 116, 111, 99, 111, 108, 115, 10, 32, 32, 32, 32, 32, 32, 32, 32, 32, 32, 32, 32, 32, 32, 32, 32, 32, 32, 32, 32, 85, 112, 103, 114, 97, 100, 101, 58, 32, 119, 101, 98, 115, 111, 99, 107, 101, 116, 10, 32, 32, 32, 32, 32, 32, 32, 32, 32, 32, 32, 32, 32, 32, 32, 32, 32, 32, 32, 32, 67, 111, 110, 110, 101, 99, 116, 105, 111, 110, 58, 32, 85, 112, 103, 114, 97, 100, 101, 10, 32, 32, 32, 32, 32, 32, 32, 32, 32, 32, 32, 32, 32, 32, 32, 32, 32, 32, 32, 32, 83, 101, 99, 45, 87, 101, 98, 83, 111, 99, 107, 101, 116, 45, 65, 99, 99, 101, 112, 116, 58, 32>>
\* "HTTP/1.1 400 Bad Request\r\n\r\n"
Response400Prefix ==
    <<72, 84, 84, 80, 47, 49, 46, 49, 32, 52, 48, 48, 32, 66, 97, 100, 32, 82, 101, 113, 117, 101, 115, 116, 13, 10, 13, 10>>

\* the connections of the model
NConns == 2
Conns == 1..NConns

\* a script delivers at most this many chunks
MaxChunks == 3

ValidRequest == CreateHandshakeHttpRequest(TokWs, LocalAddr, Key1)
Chunks == { ValidRequest, PostRequest, NonUtf8Bytes, Msg1, Msg2 }
Ends == { "idle", "close", "reset" }

RECURSIVE SeqsUpTo(_, _)
SeqsUpTo(S, n) ==
    IF n = 0 THEN { << >> }
    ELSE LET shorter == SeqsUpTo(S, n - 1)
         IN shorter \cup { Append(q, x) : q \in { r \in shorter : Len(r) = n - 1 }, x \in S }

Scripts == [ chunks : SeqsUpTo(Chunks, MaxChunks), end : Ends ]

NotConnected == [ chunks |-> << >>, end |-> "none" ]

\* a write that leaves the last byte out
WrittenShort(kind, bytes) ==
    [kind |-> kind, bytes |-> SubSeq(bytes, 1, Len(bytes) - 1)]

Written(kind, bytes) == [kind |-> kind, bytes |-> bytes]

SrvInit ==
    /\ program \in { "server.rs", "main.rs" }
    /\ listener = "listening"
    /\ serving = 0
    /\ net = [c \in Conns |-> NotConnected]
    /\ sess = [c \in Conns |-> "none"]
    /\ recv = [c \in Conns |-> << >>]
    /\ out = [c \in Conns |-> << >>]
    /\ stream = [c \in Conns |-> "none"]
    /\ ret = [c \in Conns |-> Pending]
    /\ sawEof = [c \in Conns |-> FALSE]
    /\ werr = [c \in Conns |-> FALSE]
    /\ slog = [c \in Conns |-> << >>]

SrvIdle ==
    /\ program = "server.rs"
    /\ listener = "listening"
    /\ serving = 0
    /\ net = [c \in Conns |-> NotConnected]
    /\ sess = [c \in Conns |-> "none"]
    /\ recv = [c \in Conns |-> << >>]
    /\ out = [c \in Conns |-> << >>]
    /\ stream = [c \in Conns |-> "none"]
    /\ ret = [c \in Conns |-> Pending]
    /\ sawEof = [c \in Conns |-> FALSE]
    /\ werr = [c \in Conns |-> FALSE]
    /\ slog = [c \in Conns |-> << >>]

\* a peer connects; its connection waits in the listener's queue
Connect(c, script) ==
    /\ net[c] = NotConnected
    /\ sess[c] = "none"
    /\ stream[c] = "none"
    /\ net' = [net EXCEPT ![c] = script]
    /\ stream' = [stream EXCEPT ![c] = "open"]
    /\ UNCHANGED << program, listener, serving, sess, recv, out, ret, sawEof, werr,
                    slog, hsVars, clVars, frVars >>

\* what a read (BufReader::fill_buf) on connection c can return
CanRead(c) == Len(net[c].chunks) > 0 \/ net[c].end \in { "close", "reset" }
ReadFails(c) == Len(net[c].chunks) = 0 /\ net[c].end = "reset"
ReadBytes(c) == IF Len(net[c].chunks) > 0 THEN Head(net[c].chunks) ELSE << >>
AfterRead(c) ==
    IF Len(net[c].chunks) > 0
    THEN [net EXCEPT ![c].chunks = Tail(net[c].chunks)]
    ELSE net

\* a write (write_all / write) on connection c may fail once the peer is gone
WriteMayFail(c) == net[c].end \in { "close", "reset" }

\* handle_client returns or panics: the session is over and its streams are
\* dropped.  In main.rs handle_client runs inside listen(): an error returns
\* from listen() through `?`, a panic unwinds the main thread.
\* a panic of any session takes the process, the listener with it, down
EndSessionPanicFatal(c, result) ==
    /\ sess' = [sess EXCEPT ![c] = "Closed"]
    /\ ret' = [ret EXCEPT ![c] = result]
    /\ serving' = 0
    /\ listener' = IF result.kind = "panic" THEN "panicked"
                   ELSE IF program = "main.rs" /\ ~result.ok THEN "returned"
                   ELSE listener

EndSession(c, result) ==
    /\ sess' = [sess EXCEPT ![c] = "Closed"]
    /\ ret' = [ret EXCEPT ![c] = result]
    /\ IF program = "main.rs"
       THEN /\ serving' = 0
            /\ listener' = IF result.ok THEN listener
                           ELSE IF result.kind = "panic" THEN "panicked"
                           ELSE "returned"
       ELSE UNCHANGED << serving, listener >>

\* a transport that is let go without the shutdown
DroppedNeverShutDown(c, how) == [stream EXCEPT ![c] = "dropped"]

Dropped(c, how) == [stream EXCEPT ![c] = how]

\* listen(): the next connection of incoming().  server.rs spawns a thread
\* that logs and runs handle_client; main.rs calls handle_client itself.
Accept(c) ==
    /\ listener = "listening"
    /\ serving = 0
    /\ net[c] # NotConnected
    /\ sess[c] = "none"
    /\ sess' = [sess EXCEPT ![c] = "Accepted"]
    /\ IF program = "main.rs"
       THEN serving' = c /\ slog' = slog
       ELSE /\ serving' = serving
            /\ slog' = [slog EXCEPT ![c] =
                           Append(@, LogLine("Info", "New Client Connected", << >>))]
    /\ UNCHANGED << program, listener, net, recv, out, stream, ret, sawEof, werr,
                    hsVars, clVars, frVars >>

\* handle_client, the first read: the handshake text.  An I/O error returns
\* through `?`; bytes that are not UTF-8 shut the transport down and return
\* InvalidData.
ReadHandshake(c) ==
    /\ sess[c] = "Accepted"
    /\ CanRead(c)
    /\ net' = AfterRead(c)
    /\ IF ReadFails(c)
       THEN /\ EndSession(c, IoErr("io", << >>))
            /\ stream' = Dropped(c, "dropped")
            /\ recv' = recv
       ELSE /\ recv' = [recv EXCEPT ![c] = ReadBytes(c)]
            /\ IF IsUtf8(ReadBytes(c))
               THEN /\ sess' = [sess EXCEPT ![c] = "Handshaking"]
                    /\ UNCHANGED << stream, ret, serving, listener >>
               ELSE /\ EndSession(c, IoErr("InvalidData", ErrUtf8))
                    /\ stream' = Dropped(c, "shutdown")
    /\ UNCHANGED << program, out, sawEof, werr, slog, hsVars, clVars, frVars >>

\* the handshake text of the first connection, whichever session asks
HandshakeOfFirst(c) == recv[1]

\* the handshake text the session of connection c has read: a local of its
\* own call of handle_client
Handshake(c) == recv[c]

\* a 400 response without the failure message
BadRequestNoBody(msg) == Written("400", Response400Prefix)

\* the 400 response: the status line, an empty line, the failure message
BadRequestResponse(msg) == Written("400", Response400Prefix \o msg)

\* a 101 response that leaves the accept key out
SwitchingProtocolsNoKey(key) == Written("101", Response101Prefix)

\* the 101 response carrying the accept key
SwitchingProtocolsResponse(key) == Written("101", Response101Prefix \o key)

\* after the 400 response the session goes on into the echo loop
RefuseAndGoOn(c) ==
    /\ sess' = [sess EXCEPT ![c] = "Established"]
    /\ UNCHANGED << stream, ret, serving, listener >>

\* after the 400 response: shutdown(Shutdown::Both) and return Ok(())
Refuse(c) ==
    /\ EndSession(c, IoOk)
    /\ stream' = Dropped(c, "shutdown")

\* server.rs: validate_handshake, then the 101 or the 400 response
Respond(c) ==
    /\ program = "server.rs"
    /\ sess[c] = "Handshaking"
    /\ \E v \in { ValidateHandshake(Handshake(c), LocalAddr) }, failed \in BOOLEAN :
          /\ failed => WriteMayFail(c)
          /\ out' = IF failed THEN out
                    ELSE IF v.ok
                    THEN [out EXCEPT ![c] = Append(@, SwitchingProtocolsResponse(v.val))]
                    ELSE [out EXCEPT ![c] = Append(@, BadRequestResponse(v.val))]
          /\ slog' = [slog EXCEPT ![c] =
                        Append(@, LogLine("Debug", "Validating client handshake ", recv[c]))
                        \o (IF ~v.ok
                            THEN << LogLine("Warning", "Handshake failed - ", v.val) >>
                            ELSE IF failed THEN << >>
                            ELSE << LogLine("Info", "Handshake complete, websocket established.", << >>) >>)]
          /\ IF failed
             THEN /\ EndSession(c, IoErr("io", << >>))
                  /\ stream' = Dropped(c, "dropped")
             ELSE IF v.ok
             THEN /\ sess' = [sess EXCEPT ![c] = "Established"]
                  /\ UNCHANGED << stream, ret, serving, listener >>
             ELSE Refuse(c)
    /\ UNCHANGED << program, net, recv, sawEof, werr, hsVars, clVars, frVars >>

\* main.rs: the handshake text is printed; nothing is validated or written
PrintHandshake(c) ==
    /\ program = "main.rs"
    /\ sess[c] = "Handshaking"
    /\ sess' = [sess EXCEPT ![c] = "Established"]
    /\ UNCHANGED << program, listener, serving, net, recv, out, stream, ret,
                    sawEof, werr, slog, hsVars, clVars, frVars >>

\* one turn of the echo loop: read; an I/O error returns through `?`; bytes
\* that are not UTF-8 panic in unwrap(); a non-empty message is written
\* back, the result of the write ignored; an empty one (end-of-stream) is
\* skipped and the loop reads again.
Echo(c) ==
    /\ sess[c] = "Established"
    /\ CanRead(c)
    /\ net' = AfterRead(c)
    /\ IF ReadFails(c)
       THEN /\ EndSession(c, IoErr("io", << >>))
            /\ stream' = Dropped(c, "dropped")
            /\ UNCHANGED << recv, out, sawEof, werr >>
       ELSE /\ recv' = [recv EXCEPT ![c] = ReadBytes(c)]
            /\ IF ~IsUtf8(ReadBytes(c))
               THEN /\ EndSession(c, IoErr("panic", << >>))
                    /\ stream' = Dropped(c, "dropped")
                    /\ UNCHANGED << out, sawEof, werr >>
               ELSE /\ UNCHANGED << sess, ret, serving, listener, stream >>
                    /\ sawEof' = [sawEof EXCEPT ![c] = @ \/ ReadBytes(c) = << >>]
                    /\ \E failed \in BOOLEAN :
                          /\ failed => (WriteMayFail(c) /\ ReadBytes(c) # << >>)
                          /\ out' = IF failed \/ ReadBytes(c) = << >> THEN out
                                    ELSE [out EXCEPT ![c] = Append(@, Written("echo", ReadBytes(c)))]
                          /\ werr' = [werr EXCEPT ![c] = @ \/ failed]
    /\ UNCHANGED << program, slog, hsVars, clVars, frVars >>

SessionNext ==
    \/ \E script \in Scripts : Connect(1, script)
    \/ \E c \in Conns : Accept(c)
    \/ \E c \in Conns : ReadHandshake(c)
    \/ \E c \in Conns : Respond(c)
    \/ \E c \in Conns : PrintHandshake(c)
    \/ \E c \in Conns : Echo(c)

\* the peers of a listener with several connections: one that sends
\* nothing, ones that send a good or a bad handshake and stay, ones whose
\* bytes are not UTF-8 (as handshake, as message), ones that reset
ListenerScripts ==
    { [chunks |-> << >>, end |-> "idle"],
      [chunks |-> << ValidRequest >>, end |-> "idle"],
      [chunks |-> << ValidRequest, Msg1 >>, end |-> "close"],
      [chunks |-> << PostRequest >>, end |-> "idle"],
      [chunks |-> << NonUtf8Bytes >>, end |-> "idle"],
      [chunks |-> << ValidRequest, NonUtf8Bytes >>, end |-> "idle"],
      [chunks |-> << >>, end |-> "reset"],
      [chunks |-> << ValidRequest >>, end |-> "reset"] }

\* the listener of server.rs or of main.rs with all its connections
ListenerNext ==
    \/ \E c \in Conns, script \in ListenerScripts : Connect(c, script)
    \/ \E c \in Conns : Accept(c)
    \/ \E c \in Conns : ReadHandshake(c)
    \/ \E c \in Conns : Respond(c)
    \/ \E c \in Conns : PrintHandshake(c)
    \/ \E c \in Conns : Echo(c)

\* the listener of server.rs with all its connections
ServerNext ==
    \/ \E c \in Conns, script \in ListenerScripts : Connect(c, script)
    \/ \E c \in Conns : Accept(c)
    \/ \E c \in Conns : ReadHandshake(c)
    \/ \E c \in Conns : Respond(c)
    \/ \E c \in Conns : Echo(c)

(***************************************************************************)
(* The frame codec (frame.rs): new_bin, new_str, encode, parse.            *)
(***************************************************************************)
OpCodes == { "Continuation", "Text", "Binary", "Close", "Ping", "Pong", "Reserved" }

WebSocketFrame(fin, masked, opcode, payload_len, mask_key, data) ==
    [fin |-> fin, masked |-> masked, opcode |-> opcode,
     payload_len |-> payload_len, mask_key |-> mask_key, data |-> data]

\* a constructor that never sets the masked flag
NewBinNeverMasked(fin, opcode, data, mask_key) ==
    WebSocketFrame(fin, FALSE, opcode, Len(data) * 8, mask_key, data)

NewBin(fin, opcode, data, mask_key) ==
    WebSocketFrame(fin, mask_key # None, opcode, Len(data) * 8, mask_key, data)

NewStr(fin, opcode, data, mask_key) ==
    WebSocketFrame(fin, mask_key # None, opcode, Len(data) * 8, mask_key, data)

\* the first k bytes of u64::to_le_bytes
RECURSIVE LeBytes(_, _)
LeBytes(n, k) == IF k = 0 THEN << >> ELSE << n % 256 >> \o LeBytes(n \div 256, k - 1)

OpCodeNibble(opcode) ==
    CASE opcode = "Continuation" -> 0
      [] opcode = "Text" -> 1
      [] opcode = "Binary" -> 2
      [] opcode = "Close" -> 8
      [] opcode = "Ping" -> 9
      [] opcode = "Pong" -> 10
      [] opcode = "Reserved" -> 15

\* the payload length field and its extension
EncodeLength(f) ==
    LET mask == IF f.masked THEN 128 ELSE 0
    IN IF f.payload_len <= 125 THEN << f.payload_len + mask >>
       ELSE IF f.payload_len = 126 THEN << 126 + mask >> \o LeBytes(f.payload_len, 2)
       ELSE << 127 + mask >> \o LeBytes(f.payload_len, 8)

Encode(f) ==
    << (IF f.fin THEN 128 ELSE 0) + OpCodeNibble(f.opcode) >>
      \o EncodeLength(f)
      \o (IF f.mask_key.some THEN f.mask_key.val ELSE << >>)
      \o f.data

\* a decoder that takes the nibbles above 0xA for Pong
ParseOpCodeHighAsPong(nibble) ==
    CASE nibble = 0 -> "Continuation"
      [] nibble = 1 -> "Text"
      [] nibble = 2 -> "Binary"
      [] nibble \in 3..7 -> "Reserved"
      [] nibble = 8 -> "Close"
      [] nibble = 9 -> "Ping"
      [] nibble \in 10..15 -> "Pong"

ParseOpCode(nibble) ==
    CASE nibble = 0 -> "Continuation"
      [] nibble = 1 -> "Text"
      [] nibble = 2 -> "Binary"
      [] nibble \in 3..7 -> "Reserved"
      [] nibble = 8 -> "Close"
      [] nibble = 9 -> "Ping"
      [] nibble = 10 -> "Pong"
      [] nibble \in 11..15 -> "Reserved"

RECURSIVE SumBytes(_, _, _)
SumBytes(raw, from, k) ==
    IF k = 0 THEN 0 ELSE raw[from] + SumBytes(raw, from + 1, k - 1)

Panic(msg) == [panic |-> TRUE, msg |-> msg]
Parsed(f) == [panic |-> FALSE, frame |-> f]

\* parse pops the bytes from the front of a queue; every expect() on a
\* missing byte panics
Parse(raw) ==
    IF Len(raw) < 1 THEN Panic("frame contained fin and opcode")
    ELSE IF Len(raw) < 2 THEN Panic("frame contained mask flag and initial length")
    ELSE
    LET meta == raw[1]
        fin == (meta \div 128) = 1
        opcode == ParseOpCode(meta % 16)
        mask_and_len == raw[2]
        masked == (mask_and_len \div 128) = 1
        shifted_len == mask_and_len % 128
        ext == IF shifted_len <= 125 THEN 0 ELSE IF shifted_len = 126 THEN 2 ELSE 8
    IN IF Len(raw) < 2 + ext THEN Panic("length bytes")
       ELSE
       LET payload_len == IF ext = 0 THEN shifted_len ELSE SumBytes(raw, 3, ext)
           keyLen == IF masked THEN 4 ELSE 0
           dataAt == 2 + ext + keyLen
           n == payload_len \div 8
       IN IF Len(raw) < dataAt THEN Panic("drain(0..4) past the end")
          ELSE IF Len(raw) < dataAt + n THEN Panic("read length bytes")
          ELSE Parsed(WebSocketFrame(fin, masked, opcode, payload_len,
                  IF masked THEN Some(SubSeq(raw, 3 + ext, 6 + ext)) ELSE None,
                  SubSeq(raw, dataAt + 1, dataAt + n)))

\* the payload lengths of the model, in bytes
PayloadLens == { 0, 1, 15, 16, 31, 32, 125, 126, 65535, 65536 }
BinPayload(n) == [i \in 1..n |-> (i * 7) % 256]
StrPayload(n) == [i \in 1..n |-> 97 + (i % 26)]
MaskKeys == { None, Some(<< 1, 2, 3, 4 >>) }

NoFrame == WebSocketFrame(FALSE, FALSE, "Continuation", 0, None, << >>)

FrInit ==
    /\ frPc = "start"
    /\ frame = NoFrame
    /\ wire = << >>
    /\ parsed = Parsed(NoFrame)

FrNewBin ==
    /\ frPc = "start"
    /\ \E fin \in BOOLEAN, opcode \in OpCodes, n \in PayloadLens, key \in MaskKeys :
          frame' = NewBin(fin, opcode, BinPayload(n), key)
    /\ frPc' = "built"
    /\ UNCHANGED << wire, parsed, hsVars, clVars, srvVars >>

FrNewStr ==
    /\ frPc = "start"
    /\ \E fin \in BOOLEAN, opcode \in OpCodes, n \in PayloadLens, key \in MaskKeys :
          frame' = NewStr(fin, opcode, StrPayload(n), key)
    /\ frPc' = "built"
    /\ UNCHANGED << wire, parsed, hsVars, clVars, srvVars >>

FrEncode ==
    /\ frPc = "built"
    /\ wire' = Encode(frame)
    /\ frPc' = "encoded"
    /\ UNCHANGED << frame, parsed, hsVars, clVars, srvVars >>

\* where the bytes of a frame stop when only a part of it has arrived:
\* before byte 0 or byte 1, inside the length extension, inside the mask
\* key, one byte before the end of the payload
CutAt(raw) ==
    { k \in { 0, 1, 2, 3, 5, 9, 10, 13 } : k < Len(raw) }
       \cup (IF Len(raw) > 0 THEN { Len(raw) - 1 } ELSE {})

\* the caller holds only the first k bytes of the frame
FrTruncate ==
    /\ frPc = "encoded"
    /\ \E k \in CutAt(wire) : wire' = SubSeq(wire, 1, k)
    /\ frPc' = "truncated"
    /\ UNCHANGED << frame, parsed, hsVars, clVars, srvVars >>

\* the bytes of a frame a peer sent: any byte 0 (fin, the three reserved
\* bits, the opcode nibble), no mask, no payload
FrReceive ==
    /\ frPc = "start"
    /\ \E meta \in 0..255 : wire' = << meta, 0 >>
    /\ frPc' = "received"
    /\ UNCHANGED << frame, parsed, hsVars, clVars, srvVars >>

FrParse ==
    /\ frPc \in { "encoded", "truncated", "received" }
    /\ parsed' = Parse(wire)
    /\ frPc' = IF frPc = "encoded" THEN "parsed"
               ELSE IF frPc = "truncated" THEN "parsedTruncated"
               ELSE "parsedReceived"
    /\ UNCHANGED << frame, wire, hsVars, clVars, srvVars >>

FrNext == FrNewBin \/ FrNewStr \/ FrEncode \/ FrTruncate \/ FrReceive \/ FrParse

(***************************************************************************)
(* The two validations as functions of a text given line by line: the      *)
(* first line, then header lines whose names are spelled in any case, with *)
(* or without blanks around names and values, a name twice, lines of other *)
(* headers and lines without ':' among them; or a text of blanks only.     *)
(***************************************************************************)
\* "Origin"
NameOrigin ==
    <<79, 114, 105, 103, 105, 110>>
\* "Sec-WebSocket-Protocol"
NameSecProtocol ==
    <<83, 101, 99, 45, 87, 101, 98, 83, 111, 99, 107, 101, 116, 45, 80, 114, 111, 116, 111, 99, 111, 108>>
\* "http://example.com"
ValOrigin ==
    <<104, 116, 116, 112, 58, 47, 47, 101, 120, 97, 109, 112, 108, 101, 46, 99, 111, 109>>

ToUppercase(s) ==
    [i \in 1..Len(s) |-> IF s[i] >= 97 /\ s[i] <= 122 THEN s[i] - 32 ELSE s[i]]

Entry(name, value) == [name |-> name, value |-> value]

NameBytes(name) ==
    CASE name = "host" -> NameHost
      [] name = "upgrade" -> NameUpgrade
      [] name = "connection" -> NameConnection
      [] name = "key" -> NameSecKey
      [] name = "version" -> NameSecVersion
      [] name = "accept" -> NameSecAccept
      [] name = "origin" -> NameOrigin
      [] name = "protocol" -> NameSecProtocol

Spelled(name, spell) ==
    IF spell = "upper" THEN ToUppercase(NameBytes(name))
    ELSE IF spell = "lower" THEN ToLowercase(NameBytes(name))
    ELSE NameBytes(name)

\* the line of an entry; an entry without a name is a line without ':'
EntryLine(e, spell, pad) ==
    IF e.name = "text" THEN e.value
    ELSE IF pad
         THEN << 32 >> \o Spelled(e.name, spell) \o << 9, 58, 32, 32 >> \o e.value \o << 9, 13 >>
         ELSE Spelled(e.name, spell) \o << 58, 32 >> \o e.value

\* the headers of a good request, of a good response to a request with key
RequestBase ==
    << Entry("host", LocalAddr), Entry("upgrade", Websocket),
       Entry("connection", ValUpgradeCap), Entry("key", Key1),
       Entry("version", Thirteen) >>
ResponseBase(key) ==
    << Entry("upgrade", Websocket), Entry("connection", ValUpgradeCap),
       Entry("accept", IF key = Key1 THEN Accept1 ELSE Accept2) >>

\* the value each header is refused with
BadValue(name) ==
    CASE name = "host" -> BadHost
      [] name = "upgrade" -> ValNotWebsocket
      [] name = "connection" -> ValNotUpgrade
      [] name = "key" -> KeyFoo
      [] name = "version" -> ValFourteen
      [] name = "accept" -> ValInvalidKey

ExtraEntry(x) ==
    CASE x = "origin" -> Entry("origin", ValOrigin)
      [] x = "protocol" -> Entry("protocol", TokChat)
      [] x = "text" -> Entry("text", TokSwitching)

ExtraKinds == { "origin", "protocol", "text" }
ExtraLines(xs) ==
    (IF "origin" \in xs THEN << ExtraEntry("origin") >> ELSE << >>)
      \o (IF "text" \in xs THEN << ExtraEntry("text") >> ELSE << >>)
      \o (IF "protocol" \in xs THEN << ExtraEntry("protocol") >> ELSE << >>)

\* the entries of a text: the good headers, one of them a second time with
\* its bad value, before all of them or after, the other lines above or
\* below
Entries(sh, base) ==
    LET bad == IF sh.dup = "none" THEN << >> ELSE << Entry(sh.dup, BadValue(sh.dup)) >>
        hs == IF sh.dupBadLast THEN base \o bad ELSE bad \o base
    IN IF sh.extrasAt = "top" THEN ExtraLines(sh.extras) \o hs
       ELSE hs \o ExtraLines(sh.extras)

BuildLines(sh, base) ==
    IF sh.line = << >> THEN sh.blank
    ELSE LET es == Entries(sh, base)
         IN Join(<< Join(sh.line, << 32 >>) >>
                   \o [i \in 1..Len(es) |-> EntryLine(es[i], sh.spell, sh.pad)],
                 << 10 >>)

\* texts of blanks only
Blanks == { << >>, << 32 >>, << 10 >>, << 13, 10, 32, 9, 10 >> }

LineTexts(lines, dups) ==
    [ hostname : { LocalAddr }, line : lines, spell : { "as is", "upper", "lower" },
      pad : BOOLEAN, dup : dups, dupBadLast : BOOLEAN,
      extras : SUBSET ExtraKinds, extrasAt : { "top", "bottom" }, blank : { << >> } ]

BlankTexts ==
    [ hostname : { LocalAddr }, line : { << >> }, spell : { "as is" },
      pad : { FALSE }, dup : { "none" }, dupBadLast : { FALSE },
      extras : { {} }, extrasAt : { "top" }, blank : Blanks ]

RequestTexts ==
    { sh \in LineTexts({ << GET, TokWs, TokHttp11 >>, << TokPOST, TokWs, TokHttp11 >> },
                       { "none", "host", "upgrade", "connection", "key", "version" }) :
         sh.dup = "none" => ~sh.dupBadLast }
       \cup BlankTexts

ResponseTexts ==
    { sh \in LineTexts({ << TokHttp11, Code101, TokSwitching, TokProtocols >>,
                         << TokHttp11, TokCode400, TokBad, TokRequest >> },
                       { "none", "upgrade", "connection", "accept" }) :
         sh.dup = "none" => ~sh.dupBadLast }
       \cup BlankTexts

\* validate_handshake is given a text
TextReceive ==
    /\ clPc = "start"
    /\ hsShape = None
    /\ \E sh \in RequestTexts :
          /\ hsShape' = sh
          /\ hsRequest' = BuildLines(sh, RequestBase)
    /\ UNCHANGED << hsResult, clVars, srvVars, frVars >>

TextValidate == hsShape # None /\ Validate

\* the client sends its request and reads a text as the response
TextClSend == hsShape = None /\ ClSend

ClReadText ==
    /\ clPc = "sent"
    /\ \E sh \in ResponseTexts :
          /\ clShape' = Some(sh)
          /\ clRecv' = BuildLines(sh, ResponseBase(clKey))
    /\ clPc' = "received"
    /\ UNCHANGED << clKey, clSent, clStream, clResult, clLog, hsVars, srvVars, frVars >>

TextNext == TextReceive \/ TextValidate \/ TextClSend \/ ClReadText \/ ClValidate

(***************************************************************************)
(* The specifications.                                                     *)
(***************************************************************************)
InitHandshake == HsInputs /\ ClInit /\ SrvIdle /\ FrInit
SpecHandshake == InitHandshake /\ [][Validate]_vars

InitClient == HsIdle /\ ClInit /\ SrvIdle /\ FrInit
SpecClient == InitClient /\ [][ClNext]_vars

InitSession == HsIdle /\ ClInit /\ SrvInit /\ FrInit
SpecSession == InitSession /\ [][SessionNext]_vars

\* the thread inside the echo loop of a connection is scheduled: a turn of the
\* loop that can be taken is taken
FairSession == SpecSession /\ \A c \in Conns : WF_vars(Echo(c))

InitListener == HsIdle /\ ClInit /\ SrvInit /\ FrInit
SpecListener == InitListener /\ [][ListenerNext]_vars

InitServer == HsIdle /\ ClInit /\ SrvIdle /\ FrInit
SpecServer == InitServer /\ [][ServerNext]_vars

InitTexts == HsIdle /\ ClInit /\ SrvIdle /\ FrInit
SpecTexts == InitTexts /\ [][TextNext]_vars

InitFrame == HsIdle /\ ClInit /\ SrvIdle /\ FrInit
SpecFrame == InitFrame /\ [][FrNext]_vars

(***************************************************************************)
(* The handshake contract, read off the shape of a request or a response.  *)
(***************************************************************************)
\* the number of the first check, in the order of the contract, a request fails
FirstFailing(sh) == CHOOSE i \in 1..8 :
    ~CheckPasses(sh)[i] /\ \A j \in 1..(i - 1) : CheckPasses(sh)[j]

\* the reasons each check can give
ReasonsOfCheck ==
    << { ErrNotGet }, { ErrInvalidUri }, { ErrHttpVersion },
       { ErrInvalidHostname, ErrMissingHost },
       { ErrBadUpgrade, ErrMissingUpgrade },
       { ErrBadConnection, ErrMissingConnection },
       { ErrBadVersion, ErrMissingVersion },
       { ErrInvalidKey, ErrMissingKey } >>

\* the reason the first failing check gives
FirstReason(sh) ==
    LET i == FirstFailing(sh)
    IN CASE i = 1 -> ErrNotGet
         [] i = 2 -> ErrInvalidUri
         [] i = 3 -> ErrHttpVersion
         [] i = 4 -> IF sh.host.some THEN ErrInvalidHostname ELSE ErrMissingHost
         [] i = 5 -> IF sh.upgrade.some THEN ErrBadUpgrade ELSE ErrMissingUpgrade
         [] i = 6 -> IF sh.connection.some THEN ErrBadConnection ELSE ErrMissingConnection
         [] i = 7 -> IF sh.version.some THEN ErrBadVersion ELSE ErrMissingVersion
         [] i = 8 -> IF sh.key.some THEN ErrInvalidKey ELSE ErrMissingKey

\* the accept keys of the two keys, as published (RFC 6455 section 1.3 for
\* the first) and as computed outside the model
KnownAccept(key) == IF key = Key1 THEN Accept1 ELSE Accept2

\* what the client expects for each key it may send, what the server
\* answers for each
ClientExpects == [k \in ClientKeys |-> ExpectedKey(k)]
ServerAnswers == [k \in ClientKeys |-> AcceptKey(k)]

\* the tokens of the first line of a response that is not blank
StatusTokens(sh) ==
    LET hs == HeaderLine(NameUpgrade, sh.upgrade)
                \o HeaderLine(NameConnection, sh.connection)
                \o HeaderLine(NameSecAccept, sh.accept)
    IN IF sh.line # << >> THEN sh.line
       ELSE IF hs = << >> THEN << >>
       ELSE SplitWhitespace(hs[1])

StatusCode(sh) == Next1(StatusTokens(sh), 2)
CodeIs101(sh) == StatusCode(sh).some /\ StatusCode(sh).val = Code101
AcceptOk(sh, key) == sh.accept = Some(KnownAccept(key))

ResponseFaulty(sh, key) ==
    ~CodeIs101(sh) \/ ~UpgradeOk(sh) \/ ~ConnectionOk(sh) \/ ~AcceptOk(sh, key)

\* the reason of the first failing check of a response, in the order status
\* code, Upgrade, Connection, Sec-WebSocket-Accept
ClientFirstReason(sh, key) ==
    IF ~StatusCode(sh).some THEN ErrMissingCode
    ELSE IF ~CodeIs101(sh) THEN ErrInvalidCodePrefix \o StatusCode(sh).val
    ELSE IF ~UpgradeOk(sh)
         THEN (IF sh.upgrade.some THEN ErrBadUpgrade ELSE ErrMissingUpgrade)
    ELSE IF ~ConnectionOk(sh)
         THEN (IF sh.connection.some THEN ErrBadConnection ELSE ErrMissingConnection)
    ELSE IF sh.accept.some THEN ErrServerKey ELSE ErrMissingAccept

(***************************************************************************)
(* The claims.                                                             *)
(***************************************************************************)

\* the payload lengths, in bytes, the round-trip contract names
ContractLens == { 0, 1, 125, 126, 65535, 65536 }

\* C1: for every frame with a payload of 0, 1, 125, 126, 65535 or 65536
\* bytes, any fin, opcode and masking, parse(encode(f)) does not panic and
\* equals f in fin, opcode, masked, payload_len, mask_key and data.
\* (SpecFrame; the code does not satisfy it.)
C1_RoundTrip ==
    (frPc = "parsed" /\ Len(frame.data) \in ContractLens) =>
        /\ ~parsed.panic
        /\ parsed.frame = frame

\* C2: a request that fails one or more checks is answered with the reason
\* of the first failing check in the order method, URI, version, Host,
\* Upgrade, Connection, Sec-WebSocket-Version, Sec-WebSocket-Key, and no
\* two checks share a reason.  (SpecHandshake)
C2_FirstFailingCheck ==
    (hsResult.some /\ Faults(hsShape) >= 1) =>
        /\ hsResult.val = Err(FirstReason(hsShape))
        /\ hsResult.val.val \in ReasonsOfCheck[FirstFailing(hsShape)]
        /\ \A i, j \in 1..8 : i # j => ReasonsOfCheck[i] \cap ReasonsOfCheck[j] = {}

\* a request with a wrong version and a bad key was refused for its version
C2_Witness ==
    /\ hsResult.some
    /\ Faults(hsShape) = 2
    /\ hsShape.version = Some(ValFourteen)
    /\ hsShape.key = Some(KeyFoo)
    /\ hsResult.val = Err(ErrBadVersion)

\* C3: validate_handshake returns Ok exactly when all eight checks pass,
\* and the Ok value is the accept key of the request's key.  (SpecHandshake)
C3_OkIffAllChecksPass ==
    hsResult.some =>
        /\ hsResult.val.ok <=>
              /\ MethodIsGet(hsShape) /\ UriPresent(hsShape) /\ HttpVersionOk(hsShape)
              /\ HostOk(hsShape) /\ UpgradeOk(hsShape) /\ ConnectionOk(hsShape)
              /\ VersionOk(hsShape) /\ KeyOk(hsShape)
        /\ hsResult.val.ok => hsResult.val.val = KnownAccept(hsShape.key.val)

\* a request with "Upgrade: WebSocket" was accepted with the published key
C3_Witness ==
    /\ hsResult.some
    /\ hsShape.upgrade = Some(ValWebsocketMixed)
    /\ hsShape.key = Some(Key1)
    /\ hsResult.val = Ok(Accept1)

\* C4: the accept key the server returns depends on the key alone, whatever
\* the path, the host and the layout of the request, and is the value the
\* client derives from the same key.  (SpecHandshake)
C4_AcceptKeyOfKeyAlone ==
    (hsResult.some /\ hsResult.val.ok) =>
        /\ hsShape.key.val \in ClientKeys
        /\ hsResult.val.val = ClientExpects[hsShape.key.val]

\* an accepted HTTP/2 request for /chat on another host, in CRLF layout
C4_Witness ==
    /\ hsResult.some
    /\ hsResult.val.ok
    /\ hsShape.line = << GET, TokChat, TokHttp2 >>
    /\ hsShape.hostname = Localhost
    /\ hsShape.style = "crlf"
    /\ hsShape.key = Some(Key2)

\* C5, as the code has it: a response that fails one or more checks is
\* refused with the reason of the first failing check in the order status
\* code, Upgrade, Connection, Sec-WebSocket-Accept; a second status token
\* other than 101 gives "Invalid response code " followed by that token,
\* a status line without a second token gives "Missing response code".
\* (SpecClient)
C5_FirstFailingCheck ==
    (clPc = "done" /\ clShape.some /\ ResponseFaulty(clShape.val, clKey)) =>
        clResult = IoErr("InvalidData", ClientFirstReason(clShape.val, clKey))

\* a response without a status code and without an Upgrade header
C5_Witness ==
    /\ clPc = "done"
    /\ clShape.some
    /\ clShape.val.line = << TokHttp11 >>
    /\ ~clShape.val.upgrade.some
    /\ clResult = IoErr("InvalidData", ErrMissingCode)

\* C5, as stated: every status code other than 101, an absent one included,
\* is refused with a message that names the offending code; a response with
\* status 101 is refused with the reason of the first failing check.
C5_AsStated ==
    (clPc = "done" /\ clShape.some /\ ResponseFaulty(clShape.val, clKey)) =>
        /\ ~clResult.ok
        /\ ~CodeIs101(clShape.val) =>
              /\ Len(clResult.val) > Len(ErrInvalidCodePrefix)
              /\ SubSeq(clResult.val, 1, Len(ErrInvalidCodePrefix)) = ErrInvalidCodePrefix
        /\ CodeIs101(clShape.val) =>
              clResult.val = ClientFirstReason(clShape.val, clKey)

\* C6: a response with status 101 and good Upgrade and Connection headers
\* is accepted exactly when it has a Sec-WebSocket-Accept header whose
\* value is the accept key of the key the client sent.  (SpecClient)
C6_AcceptIffKeyMatches ==
    (/\ clPc = "done" /\ clShape.some
     /\ CodeIs101(clShape.val) /\ UpgradeOk(clShape.val) /\ ConnectionOk(clShape.val)) =>
        /\ clResult.ok <=>
              (clShape.val.accept.some /\ clShape.val.accept.val = ServerAnswers[clKey])
        /\ ~clShape.val.accept.some => clResult = IoErr("InvalidData", ErrMissingAccept)
        /\ (clShape.val.accept.some /\ clShape.val.accept.val # ServerAnswers[clKey]) =>
              clResult = IoErr("InvalidData", ErrServerKey)

\* the accept key of another key was refused
C6_Witness ==
    /\ clPc = "done"
    /\ clShape.some
    /\ CodeIs101(clShape.val) /\ UpgradeOk(clShape.val) /\ ConnectionOk(clShape.val)
    /\ clKey = Key1
    /\ clShape.val.accept = Some(Accept2)
    /\ clResult = IoErr("InvalidData", ErrServerKey)

\* C7: once perform_handshake has validated a response, it returned Ok with
\* the transport open, or an InvalidData error with the transport shut
\* down; never Ok with it shut down, never an error with it open.
\* (SpecClient)
C7_ShutdownIffFailure ==
    (clPc = "done" /\ clResult.kind # "io") =>
        /\ clResult.ok => clStream = "open"
        /\ ~clResult.ok => (clStream = "shutdown" /\ clResult.kind = "InvalidData")
        /\ clStream \in { "open", "shutdown" }

\* a response failed validation: the transport is shut down
C7_Witness ==
    /\ clPc = "done"
    /\ clShape.some
    /\ ~clResult.ok
    /\ clResult.val = ErrBadUpgrade
    /\ clStream = "shutdown"

\* C8: on every connection, each echo written is preceded by the write of
\* that connection's 101 response.  (SpecSession; main.rs does not satisfy
\* it.)
C8_HandshakeBeforeEcho ==
    \A c \in Conns : \A i \in 1..Len(out[c]) :
        out[c][i].kind = "echo" => \E j \in 1..(i - 1) : out[c][j].kind = "101"

\* the session of connection c leaves Handshaking with a request that
\* validate_handshake refuses
RefusedStep(c) ==
    /\ program = "server.rs"
    /\ sess[c] = "Handshaking"
    /\ sess'[c] # "Handshaking"
    /\ ~ValidateHandshake(recv[c], LocalAddr).ok

\* the failure is logged at Warning level, the session is Closed
RefusedAndLogged(c) ==
    /\ sess'[c] = "Closed"
    /\ Len(slog'[c]) = Len(slog[c]) + 2
    /\ slog'[c][Len(slog'[c])] =
          LogLine("Warning", "Handshake failed - ", ValidateHandshake(recv[c], LocalAddr).val)

\* the 400 response with the message as its body is written, the transport
\* shut down
Answered400(c) ==
    /\ out'[c] = Append(out[c],
          Written("400", Response400Prefix \o ValidateHandshake(recv[c], LocalAddr).val))
    /\ stream'[c] = "shutdown"
    /\ ret'[c] = IoOk

\* C9, as the code has it: when validate_handshake fails the session logs
\* the failure at Warning level and ends, never Established; the 400
\* response with the message as its body is written and the transport shut
\* down unless the write fails, and then nothing is written, the transport
\* is not shut down but dropped and the session ends with the I/O error.
\* A Closed session stays Closed.  (SpecSession)
C9_RefusedHandshake ==
    [][\A c \in Conns :
          /\ RefusedStep(c) =>
                /\ RefusedAndLogged(c)
                /\ \/ Answered400(c)
                   \/ /\ WriteMayFail(c)
                      /\ out'[c] = out[c]
                      /\ stream'[c] = "dropped"
                      /\ ret'[c] = IoErr("io", << >>)
          /\ sess[c] = "Closed" => sess'[c] = "Closed"]_vars

\* a POST request was answered with the 400 response and its reason
C9_Witness ==
    /\ program = "server.rs"
    /\ sess[1] = "Closed"
    /\ recv[1] = PostRequest
    /\ out[1] = << Written("400", Response400Prefix \o ErrNotGet) >>
    /\ stream[1] = "shutdown"
    /\ slog[1][Len(slog[1])].level = "Warning"

\* C9, as stated: when validate_handshake fails the 400 response is
\* written, the failure logged, the transport shut down and the session
\* ended.
C9_AsStated ==
    [][\A c \in Conns :
          /\ RefusedStep(c) => (RefusedAndLogged(c) /\ Answered400(c))
          /\ sess[c] = "Closed" => sess'[c] = "Closed"]_vars

\* C10: an Established session whose read returned end-of-stream, or whose
\* write returned an error, is eventually Closed.  (FairSession; the code
\* does not satisfy it.)
C10_EventuallyClosed ==
    \A c \in Conns :
        (sess[c] = "Established" /\ (sawEof[c] \/ werr[c])) ~> (sess[c] = "Closed")

\* C11: a session that has ended (a refused handshake, an I/O error, bytes
\* that are not UTF-8, a panic) leaves the listener in its accept loop.
\* (SpecListener; the listener of main.rs does not satisfy it.)
C11_FailureLeavesListener ==
    \A c \in Conns : sess[c] = "Closed" => listener = "listening"

\* C12: while the session of an accepted peer waits for a handshake that
\* does not come, a connection waiting in the queue can be accepted.
\* (SpecListener; the listener of main.rs does not satisfy it.)
C12_SilentPeerLeavesAccept ==
    \A c \in Conns : \A d \in Conns :
        (/\ sess[c] = "Accepted"
         /\ ~CanRead(c)
         /\ net[d] # NotConnected
         /\ sess[d] = "none") => ENABLED Accept(d)

\* the response the contract gives a request: 101 with the accept key of
\* its Sec-WebSocket-Key, or 400 with the reason of its first failing check
OutcomeOf(request) ==
    IF request = ValidRequest
    THEN Written("101", Response101Prefix \o Accept1)
    ELSE Written("400", Response400Prefix \o ErrNotGet)

\* everything the server keeps for connection c
SessionOf(c) ==
    << sess[c], recv[c], out[c], stream[c], ret[c], sawEof[c], werr[c], slog[c] >>

\* the session of connection c leaves Handshaking
AnswerStep(c) == sess[c] = "Handshaking" /\ sess'[c] # "Handshaking"

Truncated == [panic |-> FALSE, error |-> "Truncated"]

\* C14: parse of the first bytes of a frame, cut before byte 0 or byte 1,
\* inside the length extension, inside the mask key or before the end of
\* the payload, does not panic and returns the Truncated error value.
\* (SpecFrame; the code does not satisfy it.)
C14_TruncatedIsError ==
    frPc = "parsedTruncated" => parsed = Truncated

\* the parts of an encoded frame: the 7-bit length field, the length
\* extension that follows it, the mask key, the payload
WireMarker(raw) == raw[2] % 128
ExtLen(raw) == IF WireMarker(raw) = 126 THEN 2 ELSE IF WireMarker(raw) = 127 THEN 8 ELSE 0
WireExt(raw) == SubSeq(raw, 3, 2 + ExtLen(raw))
WireKey(raw) == SubSeq(raw, 3 + ExtLen(raw), 6 + ExtLen(raw))
WirePayload(raw) ==
    SubSeq(raw, 3 + ExtLen(raw) + (IF raw[2] >= 128 THEN 4 ELSE 0), Len(raw))

\* C15: encode writes the payload length of the frame in the shortest
\* form: in the 7-bit field up to 125, as 126 and a 2-byte extension from
\* 126 to 65535, as 127 and an 8-byte extension above; parse takes each of
\* the three.  (SpecFrame; the code does not satisfy it.)
C15_MinimalLength ==
    /\ frPc = "encoded" =>
          /\ frame.payload_len <= 125 => WireMarker(wire) = frame.payload_len
          /\ frame.payload_len \in 126..65535 => WireMarker(wire) = 126
          /\ frame.payload_len > 65535 => WireMarker(wire) = 127
    /\ frPc = "parsed" => ~parsed.panic

\* the k bytes of n, most significant first
BeBytes(n, k) == [i \in 1..k |-> LeBytes(n, k)[k + 1 - i]]

\* C16: the length extension encode writes holds the payload length most
\* significant byte first, and parse gives back the payload length that
\* was encoded whenever an extension is used.  (SpecFrame; the code does
\* not satisfy it.)
C16_BigEndianExtension ==
    /\ (frPc = "encoded" /\ ExtLen(wire) > 0) =>
          WireExt(wire) = BeBytes(frame.payload_len, ExtLen(wire))
    /\ (frPc = "parsed" /\ ExtLen(wire) > 0) =>
          /\ ~parsed.panic
          /\ parsed.frame.payload_len = frame.payload_len

\* byte i of data XORed with byte i mod 4 of the key
MaskWith(data, key) ==
    [i \in 1..Len(data) |-> BitXor(data[i], key[((i - 1) % 4) + 1], 8)]

\* C17: encode of a masked frame writes the 4 bytes of the mask key and
\* then the payload with byte i XORed with mask_key[i mod 4].  (SpecFrame;
\* the code does not satisfy it.)
C17_MaskedOnWire ==
    (frPc = "encoded" /\ frame.masked) =>
        /\ WireKey(wire) = frame.mask_key.val
        /\ WirePayload(wire) = MaskWith(frame.data, frame.mask_key.val)

\* C18: the frame parse returns for input with the mask bit set holds the
\* mask key read and, as data, the payload bytes read XORed with
\* mask_key[i mod 4].  (SpecFrame; the code does not satisfy it.)
C18_UnmaskedInFrame ==
    (frPc = "parsed" /\ ~parsed.panic /\ parsed.frame.masked) =>
        /\ parsed.frame.mask_key = Some(WireKey(wire))
        /\ parsed.frame.data =
              MaskWith(SubSeq(WirePayload(wire), 1, Len(parsed.frame.data)),
                       WireKey(wire))

\* C19: payload_len of a frame built by new_bin or new_str, and of a frame
\* returned by parse, is the number of bytes of its data.  (SpecFrame; the
\* code does not satisfy it.)
C19_PayloadLenCountsBytes ==
    /\ frPc = "built" => frame.payload_len = Len(frame.data)
    /\ (frPc \in { "parsed", "parsedTruncated" } /\ ~parsed.panic) =>
          parsed.frame.payload_len = Len(parsed.frame.data)

\* a mask key, of 4 bytes, is there exactly when the flag is set
KeyMatchesFlag(f) ==
    /\ f.mask_key.some <=> f.masked
    /\ f.mask_key.some => Len(f.mask_key.val) = 4

\* C20: every frame built by new_bin or new_str and every frame returned
\* by parse has a mask key, of 4 bytes, exactly when its masked flag is
\* set.  (SpecFrame)
C20_MaskKeyIffMasked ==
    /\ frPc # "start" => KeyMatchesFlag(frame)
    /\ (frPc \in { "parsed", "parsedTruncated" } /\ ~parsed.panic) =>
          KeyMatchesFlag(parsed.frame)

\* a frame built with a mask key, encoded and parsed again: both carry the
\* flag and the key
C20_Witness ==
    /\ frPc = "parsed"
    /\ frame.masked
    /\ frame.mask_key = Some(<< 1, 2, 3, 4 >>)
    /\ ~parsed.panic
    /\ parsed.frame.masked
    /\ parsed.frame.mask_key = Some(<< 1, 2, 3, 4 >>)

\* the variant the contract gives each of the 16 opcode nibbles
VariantOfNibble(n) ==
    IF n = 0 THEN "Continuation"
    ELSE IF n = 1 THEN "Text"
    ELSE IF n = 2 THEN "Binary"
    ELSE IF n = 8 THEN "Close"
    ELSE IF n = 9 THEN "Ping"
    ELSE IF n = 10 THEN "Pong"
    ELSE "Reserved"

\* C21: parse of a frame with any byte 0 does not panic and gives the fin
\* bit and the variant of the opcode nibble, whatever the three reserved
\* bits are; byte 0 as encode writes it has the fin bit of the frame, the
\* reserved bits zero and a nibble of the frame's variant.  (SpecFrame)
C21_OpCodeNibbles ==
    /\ frPc = "parsedReceived" =>
          /\ ~parsed.panic
          /\ parsed.frame.opcode = VariantOfNibble(wire[1] % 16)
          /\ parsed.frame.fin <=> wire[1] >= 128
    /\ frPc = "encoded" =>
          /\ wire[1] >= 128 <=> frame.fin
          /\ (wire[1] % 128) < 16
          /\ VariantOfNibble(wire[1] % 16) = frame.opcode

\* byte 0 is 0x7B: the three reserved bits set, the nibble 0xB
C21_Witness ==
    /\ frPc = "parsedReceived"
    /\ wire[1] = 123
    /\ ~parsed.panic
    /\ parsed.frame.opcode = "Reserved"
    /\ ~parsed.frame.fin

\* the first read of the session of connection c returns bytes that are
\* not UTF-8
GarbledFirstRead(c) ==
    /\ sess[c] = "Accepted"
    /\ sess'[c] # "Accepted"
    /\ ~ReadFails(c)
    /\ ~IsUtf8(ReadBytes(c))

\* the session of connection c ended with the error of a handshake that is
\* not UTF-8
EndedGarbled(c) == ret[c] = IoErr("InvalidData", ErrUtf8)

\* C23: when the first bytes read on a connection are not UTF-8 the session
\* shuts the transport down and ends with the InvalidData error, and
\* nothing is ever written on the connection: no 101, no 400, no echo.
\* (SpecSession)
C23_GarbledHandshake ==
    [][\A c \in Conns :
          /\ GarbledFirstRead(c) => EndedGarbled(c)'
          /\ EndedGarbled(c)' =>
                /\ sess'[c] = "Closed"
                /\ stream'[c] = "shutdown"
                /\ out'[c] = << >>]_vars

\* the server of server.rs read FF FE first: the session is over, the
\* transport shut down, nothing written, the peer's next chunk left unread
C23_Witness ==
    /\ program = "server.rs"
    /\ recv[1] = NonUtf8Bytes
    /\ EndedGarbled(1)
    /\ sess[1] = "Closed"
    /\ stream[1] = "shutdown"
    /\ out[1] = << >>
    /\ net[1].chunks = << Msg1 >>

\* the session of connection c, Established, reads the next chunk of its
\* peer
ChunkRead(c) ==
    /\ sess[c] = "Established"
    /\ Len(net[c].chunks) > 0
    /\ net'[c].chunks = Tail(net[c].chunks)

\* the chunk is written back as it was read, after what was written before
EchoedBack(c) ==
    out'[c] = Append(out[c], [kind |-> "echo", bytes |-> Head(net[c].chunks)])

\* every write on connection c comes after the earlier ones, and an echo is
\* written only by an Established session and is the chunk just read
EchoOnlyEstablished(c) ==
    out'[c] # out[c] =>
        /\ Len(out'[c]) = Len(out[c]) + 1
        /\ SubSeq(out'[c], 1, Len(out[c])) = out[c]
        /\ out'[c][Len(out'[c])].kind = "echo" => (ChunkRead(c) /\ EchoedBack(c))

GarbledChunkRead(c) == ChunkRead(c) /\ ~IsUtf8(Head(net[c].chunks))

\* C25: when an Established session reads bytes that are not UTF-8 that
\* session ends, by the panic of its thread, and nothing else does: the
\* listener goes on listening and what the server keeps for every other
\* connection is as it was.  (SpecServer)
C25_GarbledChunkAbortsOne ==
    [][/\ listener' = "listening"
       /\ \A c \in Conns :
             GarbledChunkRead(c) =>
                /\ sess'[c] = "Closed"
                /\ ret'[c] = IoErr("panic", << >>)
                /\ \A d \in Conns \ {c} : SessionOf(d)' = SessionOf(d)]_vars

\* the session of connection 1 has panicked on FF FE; connection 2 is
\* Established and has had its chunk echoed
C25_Witness ==
    /\ program = "server.rs"
    /\ listener = "listening"
    /\ sess[1] = "Closed"
    /\ ret[1] = IoErr("panic", << >>)
    /\ recv[1] = NonUtf8Bytes
    /\ sess[2] = "Established"
    /\ out[2] = << Written("101", Response101Prefix \o Accept1),
                   [kind |-> "echo", bytes |-> Msg1] >>

\* where in what was written on connection c the handshake responses are
ResponsesAt(c) == { i \in 1..Len(out[c]) : out[c][i].kind \in { "101", "400" } }

\* C27: on every connection at most one handshake response is written, a
\* 101 or a 400, before anything else, and a 400 is the last thing written.
\* (SpecSession)
C27_OneResponse ==
    \A c \in Conns :
        /\ ResponsesAt(c) \subseteq { 1 }
        /\ \A i \in 1..Len(out[c]) : out[c][i].kind = "400" => i = Len(out[c])

\* a POST was answered with the 400; the chunk the peer sent after it is
\* never read
C27_Witness ==
    /\ program = "server.rs"
    /\ sess[1] = "Closed"
    /\ ResponsesAt(1) = { 1 }
    /\ out[1][1].kind = "400"
    /\ Len(out[1]) = 1
    /\ net[1].chunks = << Msg1, Msg2 >>

\* C26: the request create_handshake_http_request builds passes
\* validate_handshake with the address of its Host header as the expected
\* host, and the 101 response the server formats from the accept key
\* returned passes validate_server_handshake for the key of the request.
\* (SpecClient)
C26_EndToEnd ==
    clPc = "sent" =>
        \E v \in { ValidateHandshake(clSent, LocalAddr) } :
            /\ v.ok
            /\ ValidateServerHandshake(SwitchingProtocolsResponse(v.val).bytes, clKey).ok

\* the client has sent its request with the second key
C26_Witness ==
    /\ clPc = "sent"
    /\ clKey = Key2
    /\ clSent = CreateHandshakeHttpRequest(TokWs, LocalAddr, Key2)

\* first tokens a status line may start with
FirstTokens == { TokHttp10, TokIcy, TokCode400 }

\* the response of shape sh with the first token of its status line
\* replaced
WithFirstToken(sh, tok) == BuildResponse([sh EXCEPT !.line[1] = tok])

\* C30: a response whose status line has a first token gets the result of
\* the response that differs from it in that token only.  (SpecClient)
C30_FirstTokenIgnored ==
    (clPc = "done" /\ clShape.some /\ Len(clShape.val.line) >= 1) =>
        \A tok \in FirstTokens :
            \E v \in { ValidateServerHandshake(WithFirstToken(clShape.val, tok), clKey) } :
                clResult = IF v.ok THEN IoOk ELSE IoErr("InvalidData", v.val)

\* a response that starts "ICY 101" was accepted
C30_Witness ==
    /\ clPc = "done"
    /\ clShape.some
    /\ Len(clShape.val.line) >= 2
    /\ clShape.val.line[1] = TokIcy
    /\ clResult = IoOk

\* the value of the last line of a header in a text that is not blank
LastValue(sh, base, name) ==
    LET es == Entries(sh, base)
        I == { i \in 1..Len(es) : es[i].name = name }
    IN IF sh.line = << >> \/ I = {} THEN None
       ELSE Some(es[CHOOSE i \in I : \A j \in I : j <= i].value)

\* a text as the contract sees it: the first line and, of each header, the
\* value of its last line
RequestRead(sh) ==
    [ line |-> sh.line, hostname |-> sh.hostname,
      host |-> LastValue(sh, RequestBase, "host"),
      upgrade |-> LastValue(sh, RequestBase, "upgrade"),
      connection |-> LastValue(sh, RequestBase, "connection"),
      version |-> LastValue(sh, RequestBase, "version"),
      key |-> LastValue(sh, RequestBase, "key") ]
ResponseRead(sh, key) ==
    [ line |-> sh.line,
      upgrade |-> LastValue(sh, ResponseBase(key), "upgrade"),
      connection |-> LastValue(sh, ResponseBase(key), "connection"),
      accept |-> LastValue(sh, ResponseBase(key), "accept") ]

\* C22: both validators find a header whatever the case of its name, take
\* its value without the blanks around it, and take the last line of a
\* header that is given twice: the result of a text is the result the
\* checks give for the last value of each header.  (SpecTexts)
C22_HeaderLookup ==
    /\ (hsResult.some /\ hsShape.line # << >>) =>
          hsResult.val = IF Faults(RequestRead(hsShape)) = 0
                         THEN Ok(KnownAccept(RequestRead(hsShape).key.val))
                         ELSE Err(FirstReason(RequestRead(hsShape)))
    /\ (clPc = "done" /\ clShape.some /\ clShape.val.line # << >>) =>
          clResult = IF ResponseFaulty(ResponseRead(clShape.val, clKey), clKey)
                     THEN IoErr("InvalidData",
                                ClientFirstReason(ResponseRead(clShape.val, clKey), clKey))
                     ELSE IoOk

\* a request with " UPGRADE\t:  notwebsocket" above its good Upgrade line
\* was accepted
C22_Witness ==
    /\ hsResult.some
    /\ hsShape.line = << GET, TokWs, TokHttp11 >>
    /\ hsShape.dup = "upgrade"
    /\ ~hsShape.dupBadLast
    /\ hsShape.spell = "upper"
    /\ hsShape.pad
    /\ hsResult.val = Ok(Accept1)

\* C28: lines of other headers and lines without ':' do not change the
\* result of validate_handshake: a request gets the result of the request
\* without them.  (SpecTexts)
C28_OtherLinesIgnored ==
    (hsResult.some /\ hsShape.line # << >>) =>
        hsResult.val = ValidateHandshake(BuildLines([hsShape EXCEPT !.extras = {}], RequestBase),
                                         hsShape.hostname)

\* a request with an Origin header, a Sec-WebSocket-Protocol header and a
\* line without ':' right below its first line was accepted
C28_Witness ==
    /\ hsResult.some
    /\ hsShape.extras = ExtraKinds
    /\ hsShape.extrasAt = "top"
    /\ hsShape.dup = "none"
    /\ hsResult.val = Ok(Accept1)

\* C29: a text of blanks only is never "not a valid HTTP request" or "not
\* a valid HTTP response": validate_handshake returns "Handshake is not a
\* GET Request" for it and the client fails with "Missing response code";
\* no text gets the other two errors.  (SpecTexts)
C29_BlankInput ==
    /\ (hsResult.some /\ hsShape.line = << >>) => hsResult.val = Err(ErrNotGet)
    /\ hsResult.some => hsResult.val # Err(ErrNotHttpRequest)
    /\ (clPc = "done" /\ clShape.some /\ clShape.val.line = << >>) =>
          clResult = IoErr("InvalidData", ErrMissingCode)
    /\ clPc = "done" => clResult.val # ErrNotHttpResponse

\* a text of line ends and blanks was refused as not a GET request
C29_Witness ==
    /\ hsResult.some
    /\ hsShape.line = << >>
    /\ hsShape.blank = << 13, 10, 32, 9, 10 >>
    /\ hsRequest = << 13, 10, 32, 9, 10 >>
    /\ hsResult.val = Err(ErrNotGet)

====
